---- MODULE Spec2Model ----
(***************************************************************************)
(* Credential issuance and session brokering of the Deribit MCP gateway.   *)
(*                                                                         *)
(* OAuth side: the Express application with dynamic client registration,   *)
(* the authorization-code grant with PKCE, the refresh-token grant and the *)
(* bearer-token middleware (the four in-memory Maps registeredClients,     *)
(* authorizationCodes, accessTokens, refreshTokens).                       *)
(*                                                                         *)
(* Values are JavaScript values: strings are TLA+ strings, the value       *)
(* `undefined' (a field the request does not carry) is Undefined, numbers  *)
(* (Date.now() milliseconds, HTTP statuses) are integers.                  *)
(***************************************************************************)
EXTENDS Integers, Sequences, FiniteSets, TLC

VARIABLES
    now,                \* Date.now(), milliseconds
    registeredClients,  \* Map client_id -> client record
    authorizationCodes, \* Map code -> authorization-code record
    accessTokens,       \* Map access token -> token record
    refreshTokens,      \* Map refresh token -> token record
    random,             \* how many values crypto.randomBytes has produced, per use
    ticks,              \* how many times the clock has been advanced
    issued,             \* history: every code ever stored by authorize, with its record
    fate,               \* history: why a code left authorizationCodes
    last,               \* the request handled last and the response it was given
    inflight,           \* POST /oauth/token requests received, handler not yet run
    replies,            \* the responses given to the requests of inflight, each
                        \* with the time of its handler's run and the requests
                        \* that were open, unanswered, during that run
    sessions,           \* Map session id -> { mcpServer, connected } of POST /mcp
    servers,            \* how many Server objects createMCPServer has returned
    posts,              \* the requests made to /mcp: message, position, response,
                        \* and what the upstream fetch came to
    streams             \* the server-sent-event connections: GET /sse, GET /mcp

oauthVars == <<now, ticks, registeredClients, authorizationCodes, accessTokens,
               refreshTokens, random, issued, fate>>
mcpVars == <<sessions, servers, posts, streams>>
vars == <<now, ticks, registeredClients, authorizationCodes, accessTokens,
          refreshTokens, random, issued, fate, last, inflight, replies,
          sessions, servers, posts, streams>>

-----------------------------------------------------------------------------
(* Bounds of the model *)

MaxClients == 1
MaxCodes == 2
MaxAccessTokens == 3
MaxConns == 2
MaxTicks == 2

(* Program constants *)

CodeTtlMs == 600000
TokenTtlMs == 3600000
ExpiresIn == 3600

-----------------------------------------------------------------------------
(* JavaScript values *)

Undefined == "<undefined>"

\* A JavaScript number where a string is expected (a JSON message may carry
\* any JSON value as its method).
JsNumber(n) == "<number:" \o ToString(n) \o ">"

\* JavaScript truthiness of a value: undefined, the empty string and the
\* number 0 are falsy.
Truthy(v) == v # Undefined /\ v # "" /\ v # JsNumber(0)

EmptyMap == [k \in {} |-> Undefined]

MapSet(m, k, v) == [x \in DOMAIN m \cup {k} |-> IF x = k THEN v ELSE m[x]]

MapDelete(m, k) == [x \in DOMAIN m \ {k} |-> m[x]]

\* String.prototype.startsWith
StartsWith(s, p) == Len(s) >= Len(p) /\ SubSeq(s, 1, Len(p)) = p

\* String.prototype.substring(n): the characters from index n on
Substring(s, n) == IF Len(s) > n THEN SubSeq(s, n + 1, Len(s)) ELSE ""

-----------------------------------------------------------------------------
(* crypto: random identifiers and the SHA-256 digest *)

\* crypto.randomBytes(n).toString('hex'): a value never produced before.  The
\* k-th value drawn for a use is named after the use and k.
RandomHex(use, k) == use \o "_" \o ToString(k)

ClientIdOf(k) == "client_" \o ToString(k)
SecretOf(k) == RandomHex("secret", k)
CodeOf(k) == RandomHex("code", k)
AccessTokenOf(k) == RandomHex("at", k)
RefreshTokenOf(k) == RandomHex("rt", k)

\* crypto.createHash('sha256').update(v).digest('base64url'), tabulated for
\* the verifiers the model presents (the digests are the real ones).
Sha256Base64Url(v) ==
    CASE v = "" -> "47DEQpj8HBSa-_TImW-5JCeuQeRkm5NMpJWZG3hSuFU"
      [] v = "verifier123" -> "Z_P4EKbGwIkA01e3Y5fp4tMCvn_Ae5nUw7qY7XwkTrQ"
      [] v = "verifier456" -> "jWnwX1mlhkJDh6zqzDzIf5r0IN3uwnx38s0cDmMCcpQ"
      [] OTHER -> "sha256:" \o v

-----------------------------------------------------------------------------
(* POST /oauth/register *)

DefaultRedirectUris == <<"https://claude.ai/api/mcp/auth_callback">>

\* `client_name || 'Unknown Client'`
ClientNameOrDefault(body) ==
    IF Truthy(body.client_name) THEN body.client_name ELSE "Unknown Client"

\* `redirect_uris || [default]`: a body without the field gives undefined,
\* which is falsy; every array, the empty one included, is truthy.
RedirectUrisOrDefault(body) ==
    IF "redirect_uris" \in DOMAIN body THEN body.redirect_uris ELSE DefaultRedirectUris

RegisterHandler(body) ==
    LET clientId == ClientIdOf(random.client + 1)
        clientSecret == SecretOf(random.client + 1)
    IN  [clients |-> MapSet(registeredClients, clientId,
                        [client_id |-> clientId,
                         client_secret |-> clientSecret,
                         client_name |-> ClientNameOrDefault(body),
                         redirect_uris |-> RedirectUrisOrDefault(body),
                         created_at |-> now]),
         res |-> [status |-> 200,
                  body |-> [client_id |-> clientId,
                            client_secret |-> clientSecret,
                            client_name |-> ClientNameOrDefault(body),
                            redirect_uris |-> RedirectUrisOrDefault(body)]]]

\* A registration, while fewer than `limit' clients have been registered
RegisterUpTo(body, limit) ==
    /\ random.client < limit
    /\ registeredClients' = RegisterHandler(body).clients
    /\ random' = [random EXCEPT !.client = @ + 1]
    /\ last' = [op |-> "register", req |-> body, res |-> RegisterHandler(body).res]
    /\ UNCHANGED <<now, ticks, authorizationCodes, accessTokens, refreshTokens, issued,
                   fate, inflight, replies, mcpVars>>

Register(body) == RegisterUpTo(body, MaxClients)

-----------------------------------------------------------------------------
(* GET /oauth/authorize *)

\* Mutant: only a redirect URI that some client registered is accepted
ParsesAsUrl_Registered(u) ==
    \E c \in DOMAIN registeredClients :
        \E i \in 1..Len(registeredClients[c].redirect_uris) :
            registeredClients[c].redirect_uris[i] = u

\* `new URL(redirect_uri)` throws TypeError unless the string is an absolute
\* URL; the model presents http(s) URLs, strings without a scheme and
\* undefined.
ParsesAsUrl(u) ==
    \/ StartsWith(u, "https://") /\ Len(u) > Len("https://")
    \/ StartsWith(u, "http://") /\ Len(u) > Len("http://")

\* redirectUrl.searchParams.append('code', code);
\* if (state) redirectUrl.searchParams.append('state', state)
RedirectUrl(redirect_uri, code, state) ==
    [url |-> redirect_uri,
     query |-> IF Truthy(state) THEN <<<<"code", code>>, <<"state", state>>>>
                                ELSE <<<<"code", code>>>>]

\* Mutant: the expiry of a code does not follow the clock
CodeExpiresAt_Epoch(t) == CodeTtlMs

CodeExpiresAt(t) == t + CodeTtlMs

AuthorizationCodeRecord(q) ==
    [client_id |-> q.client_id,
     redirect_uri |-> q.redirect_uri,
     code_challenge |-> q.code_challenge,
     code_challenge_method |-> q.code_challenge_method,
     created_at |-> now,
     expires_at |-> CodeExpiresAt(now)]

\* Mutant: authorize does not validate the client
ClientKnown_Unchecked(client_id) == TRUE

\* `const client = registeredClients.get(client_id); if (!client) ...'
ClientKnown(client_id) == client_id \in DOMAIN registeredClients

\* The client is looked up first; only then is a code drawn and stored, and
\* only after the store is the redirect URL built (a throw from `new URL'
\* reaches Express's error handler, which answers 500).
AuthorizeHandler(q) ==
    IF ~ClientKnown(q.client_id)
    THEN [codes |-> authorizationCodes, drew |-> 0,
          res |-> [status |-> 400, text |-> "Invalid client_id"]]
    ELSE LET code == CodeOf(random.code + 1)
             codes == MapSet(authorizationCodes, code, AuthorizationCodeRecord(q))
         IN  IF ParsesAsUrl(q.redirect_uri)
             THEN [codes |-> codes, drew |-> 1,
                   res |-> [status |-> 302,
                            location |-> RedirectUrl(q.redirect_uri, code, q.state)]]
             ELSE [codes |-> codes, drew |-> 1,
                   res |-> [status |-> 500, text |-> "TypeError: Invalid URL"]]

Authorize(q) ==
    LET r == AuthorizeHandler(q)
    IN  /\ random.code < MaxCodes
        /\ authorizationCodes' = r.codes
        /\ random' = [random EXCEPT !.code = @ + r.drew]
        /\ issued' = [c \in DOMAIN r.codes \cup DOMAIN issued |->
                        IF c \in DOMAIN issued THEN issued[c] ELSE r.codes[c]]
        /\ last' = [op |-> "authorize", req |-> q, res |-> r.res]
        /\ UNCHANGED <<now, ticks, registeredClients, accessTokens, refreshTokens, fate,
                       inflight, replies, mcpVars>>

-----------------------------------------------------------------------------
(* POST /oauth/token *)

TokenError(status, error) == [status |-> status, body |-> [error |-> error]]

TokenErrorDescribed(status, error, description) ==
    [status |-> status, body |-> [error |-> error, error_description |-> description]]

\* What a token request leaves behind: the three Maps it can write, the
\* number of access tokens and refresh tokens it drew, how the presented code
\* left the ledger (if it did), and the response.
TokenOutcome(codes, access, refresh, drewAccess, drewRefresh, left, res) ==
    [codes |-> codes, access |-> access, refresh |-> refresh,
     drewAccess |-> drewAccess, drewRefresh |-> drewRefresh, left |-> left, res |-> res]

\* Mutant: a rejection empties the code ledger
TokenRejected_Wiped(res) ==
    TokenOutcome(EmptyMap, accessTokens, refreshTokens, 0, 0, "", res)

TokenRejected(res) ==
    TokenOutcome(authorizationCodes, accessTokens, refreshTokens, 0, 0, "", res)

\* Mutant: a presented client_secret is not compared with the stored one
ClientAuthFails_Unchecked(body) == FALSE

\* `if (client_secret) { client = registeredClients.get(client_id);
\*    if (!client || client.client_secret !== client_secret) -> invalid_client }'
ClientAuthFails(body) ==
    /\ Truthy(body.client_secret)
    /\ \/ body.client_id \notin DOMAIN registeredClients
       \/ registeredClients[body.client_id].client_secret # body.client_secret

\* Mutant: the expiry of a code is never noticed
CodeExpired_Never(authCode, t) == FALSE

\* `Date.now() > authCode.expires_at'
CodeExpired(authCode, t) == t > authCode.expires_at

\* Mutant: the verifier is hashed whatever the stored method
PkceChallenge_AlwaysHashed(method, verifier) == Sha256Base64Url(verifier)

\* Mutant: the verifier is compared without being hashed
PkceChallenge_Unhashed(method, verifier) == verifier

\* The challenge recomputed from the verifier: the digest for S256, and the
\* verifier itself for every other stored method.
PkceChallenge(method, verifier) ==
    IF method = "S256" THEN Sha256Base64Url(verifier) ELSE verifier

\* Mutant: every code is treated as carrying a challenge
HasChallenge_Always(authCode) == TRUE

\* `if (authCode.code_challenge)': PKCE is checked only for a code stored
\* with a challenge
HasChallenge(authCode) == Truthy(authCode.code_challenge)

TokenExpiresAt(t) == t + TokenTtlMs

AccessTokenRecord(client_id) ==
    [client_id |-> client_id, created_at |-> now, expires_at |-> TokenExpiresAt(now)]

RefreshTokenRecord(client_id) == [client_id |-> client_id, created_at |-> now]

\* Mutant: the exchange forgets authorizationCodes.delete(code)
ConsumeCode_Kept(codes, code) == codes

\* authorizationCodes.delete(code) after the tokens are stored
ConsumeCode(codes, code) == MapDelete(codes, code)

\* The tokens minted by a code exchange
MintOnExchange(body) ==
    LET accessToken == AccessTokenOf(random.access + 1)
        newRefreshToken == RefreshTokenOf(random.refresh + 1)
    IN  TokenOutcome(
            ConsumeCode(authorizationCodes, body.code),
            MapSet(accessTokens, accessToken, AccessTokenRecord(body.client_id)),
            MapSet(refreshTokens, newRefreshToken, RefreshTokenRecord(body.client_id)),
            1, 1, "exchanged",
            [status |-> 200,
             body |-> [access_token |-> accessToken,
                       token_type |-> "Bearer",
                       expires_in |-> ExpiresIn,
                       refresh_token |-> newRefreshToken]])

\* grant_type === 'authorization_code'
ExchangeCode(body) ==
    IF body.code \notin DOMAIN authorizationCodes
    THEN TokenRejected(TokenError(400, "invalid_grant"))
    ELSE LET authCode == authorizationCodes[body.code]
         IN  IF CodeExpired(authCode, now)
             THEN TokenOutcome(MapDelete(authorizationCodes, body.code), accessTokens,
                               refreshTokens, 0, 0, "expired",
                               TokenError(400, "expired_token"))
             ELSE IF authCode.client_id # body.client_id
             THEN TokenRejected(TokenError(400, "invalid_grant"))
             ELSE IF HasChallenge(authCode) /\ ~Truthy(body.code_verifier)
             THEN TokenRejected(TokenErrorDescribed(400, "invalid_request",
                                                    "code_verifier required"))
             ELSE IF /\ HasChallenge(authCode)
                     /\ PkceChallenge(authCode.code_challenge_method, body.code_verifier)
                            # authCode.code_challenge
             THEN TokenRejected(TokenErrorDescribed(400, "invalid_grant",
                                                    "code_verifier mismatch"))
             ELSE MintOnExchange(body)

\* Mutant: the refresh grant does not compare client ids
RefreshClientMismatch_Ignored(tokenData, client_id) == FALSE

\* `tokenData.client_id !== client_id'
RefreshClientMismatch(tokenData, client_id) == tokenData.client_id # client_id

\* Mutant: the refresh grant consumes the refresh token it was given
RefreshTokensAfterRefresh_Consumed(tokens, presented) == MapDelete(tokens, presented)

\* The refresh branch never writes refreshTokens
RefreshTokensAfterRefresh(tokens, presented) == tokens

\* grant_type === 'refresh_token': a new access token, the refresh token stays
Refresh(body) ==
    IF body.refresh_token \notin DOMAIN refreshTokens
    THEN TokenRejected(TokenError(400, "invalid_grant"))
    ELSE IF RefreshClientMismatch(refreshTokens[body.refresh_token], body.client_id)
    THEN TokenRejected(TokenError(400, "invalid_grant"))
    ELSE LET accessToken == AccessTokenOf(random.access + 1)
         IN  TokenOutcome(
                 authorizationCodes,
                 MapSet(accessTokens, accessToken, AccessTokenRecord(body.client_id)),
                 RefreshTokensAfterRefresh(refreshTokens, body.refresh_token), 1, 0, "",
                 [status |-> 200,
                  body |-> [access_token |-> accessToken,
                            token_type |-> "Bearer",
                            expires_in |-> ExpiresIn]])

TokenHandler(body) ==
    IF ClientAuthFails(body) THEN TokenRejected(TokenError(401, "invalid_client"))
    ELSE IF body.grant_type = "authorization_code" THEN ExchangeCode(body)
    ELSE IF body.grant_type = "refresh_token" THEN Refresh(body)
    ELSE TokenRejected(TokenError(400, "unsupported_grant_type"))

\* The writes of one run of the token handler.  The handler has no await: it
\* runs to completion before any other request's handler starts.
TokenWrites(body) ==
    LET r == TokenHandler(body)
    IN  /\ random.access + r.drewAccess <= MaxAccessTokens
        /\ authorizationCodes' = r.codes
        /\ accessTokens' = r.access
        /\ refreshTokens' = r.refresh
        /\ random' = [random EXCEPT !.access = @ + r.drewAccess,
                                    !.refresh = @ + r.drewRefresh]
        /\ fate' = IF r.left = "" THEN fate ELSE MapSet(fate, body.code, r.left)
        /\ UNCHANGED <<now, ticks, registeredClients, issued, mcpVars>>

\* A token request handled as soon as it is received
Token(body) ==
    /\ TokenWrites(body)
    /\ last' = [op |-> "token", req |-> body, res |-> TokenHandler(body).res]
    /\ UNCHANGED <<inflight, replies>>

-----------------------------------------------------------------------------
(* POST /oauth/token, requests in flight *)

\* Express reads and parses a request body asynchronously, so several token
\* requests can be open at once; their handlers then run one after another,
\* each to completion, in whatever order the bodies complete.
TokenArrive(conn, body) ==
    /\ conn \notin DOMAIN inflight
    /\ inflight' = MapSet(inflight, conn, body)
    /\ UNCHANGED <<oauthVars, last, replies, mcpVars>>

TokenRun(conn) ==
    /\ conn \in DOMAIN inflight
    /\ conn \notin DOMAIN replies
    /\ TokenWrites(inflight[conn])
    /\ replies' = MapSet(replies, conn,
                          [res |-> TokenHandler(inflight[conn]).res,
                           at |-> now,
                           open |-> (DOMAIN inflight \ DOMAIN replies) \ {conn}])
    /\ UNCHANGED <<last, inflight>>

-----------------------------------------------------------------------------
(* validateToken, the bearer-token middleware of GET /sse and POST /message *)

\* Mutant: the expiry of an access token is never noticed
TokenExpired_Never(tokenData, t) == FALSE

\* Mutant: a token is refused from the instant of its expires_at on
TokenExpired_Early(tokenData, t) == t >= tokenData.expires_at

\* `Date.now() > tokenData.expires_at'
TokenExpired(tokenData, t) == t > tokenData.expires_at

\* The middleware either answers 401 itself or sets req.client_id and calls
\* next(); an expired token is deleted from accessTokens on the way.
ValidateToken(authorization) ==
    IF ~Truthy(authorization) \/ ~StartsWith(authorization, "Bearer ")
    THEN [access |-> accessTokens, passed |-> FALSE,
          res |-> TokenError(401, "invalid_token")]
    ELSE LET token == Substring(authorization, 7)
         IN  IF token \notin DOMAIN accessTokens
             THEN [access |-> accessTokens, passed |-> FALSE,
                   res |-> TokenError(401, "invalid_token")]
             ELSE IF TokenExpired(accessTokens[token], now)
             THEN [access |-> MapDelete(accessTokens, token), passed |-> FALSE,
                   res |-> TokenError(401, "expired_token")]
             ELSE [access |-> accessTokens, passed |-> TRUE,
                   client_id |-> accessTokens[token].client_id]

\* POST /message: validateToken, then `res.status(200).end()'; whatever the
\* request carries besides the Authorization header is not read.
PostMessageOf(req) ==
    LET v == ValidateToken(req.authorization)
    IN  /\ accessTokens' = v.access
        /\ last' = [op |-> "validate",
                    req |-> req,
                    res |-> IF v.passed
                            THEN [status |-> 200, client_id |-> v.client_id]
                            ELSE v.res]
        /\ UNCHANGED <<now, ticks, registeredClients, authorizationCodes, refreshTokens,
                       random, issued, fate, inflight, replies, mcpVars>>

PostMessage(authorization) == PostMessageOf([authorization |-> authorization])

-----------------------------------------------------------------------------
(* The clock *)

\* Every comparison the program makes with Date.now() is against a stored
\* expires_at, so the clock is advanced from one stored expiry to the next:
\* to the instant of an expiry (the last instant at which the artifact is
\* still accepted) or to the millisecond after it.
Deadlines ==
    LET expiries == {authorizationCodes[c].expires_at : c \in DOMAIN authorizationCodes}
                    \cup {accessTokens[a].expires_at : a \in DOMAIN accessTokens}
    IN  {t \in expiries \cup {e + 1 : e \in expiries} : t > now}

Tick ==
    /\ ticks < MaxTicks
    /\ \E t \in Deadlines : now' = t
    /\ ticks' = ticks + 1
    /\ last' = [op |-> "tick"]
    /\ UNCHANGED <<registeredClients, authorizationCodes, accessTokens, refreshTokens,
                   random, issued, fate, inflight, replies, mcpVars>>

-----------------------------------------------------------------------------
(* Requests the model presents *)

ClientIds == {ClientIdOf(k) : k \in 1..(MaxClients + 1)}
Secrets == {SecretOf(k) : k \in 1..(MaxClients + 1)}
Codes == {CodeOf(k) : k \in 1..MaxCodes}
RefreshTokenValues == {RefreshTokenOf(k) : k \in 1..MaxCodes}
AccessTokenValues == {AccessTokenOf(k) : k \in 1..MaxAccessTokens}

RegisterBodies == {[client_name |-> "Claude"]}

AuthorizeQuery(client_id, code_challenge, code_challenge_method) ==
    [client_id |-> client_id,
     redirect_uri |-> "https://claude.ai/api/mcp/auth_callback",
     state |-> "xyz", response_type |-> "code",
     code_challenge |-> code_challenge,
     code_challenge_method |-> code_challenge_method]

ExchangeBody(code, client_id, client_secret, code_verifier) ==
    [grant_type |-> "authorization_code", code |-> code, refresh_token |-> Undefined,
     client_id |-> client_id, client_secret |-> client_secret,
     code_verifier |-> code_verifier]

RefreshBody(refresh_token, client_id, client_secret) ==
    [grant_type |-> "refresh_token", code |-> Undefined, refresh_token |-> refresh_token,
     client_id |-> client_id, client_secret |-> client_secret,
     code_verifier |-> Undefined]

\* (code_challenge, code_challenge_method) pairs of authorize requests
PkceParams == {<<Undefined, Undefined>>, <<Sha256Base64Url("verifier123"), "S256">>}

Verifiers == {Undefined, "verifier123", "verifier456"}

AuthorizeQueries == {AuthorizeQuery(c, p[1], p[2]) : c \in ClientIds, p \in PkceParams}

ExchangeBodies ==
    {ExchangeBody(c, i, s, v) :
        c \in Codes, i \in ClientIds, s \in Secrets \cup {Undefined}, v \in Verifiers}

RefreshBodies ==
    {RefreshBody(r, i, s) :
        r \in RefreshTokenValues, i \in ClientIds, s \in Secrets \cup {Undefined}}

OtherGrantBodies ==
    {[grant_type |-> "password", code |-> Undefined, refresh_token |-> Undefined,
      client_id |-> i, client_secret |-> Undefined, code_verifier |-> Undefined] :
        i \in ClientIds}

TokenBodies == ExchangeBodies \cup RefreshBodies \cup OtherGrantBodies

AuthorizationHeaders ==
    {Undefined, "Basic dXNlcjpwdw=="} \cup {"Bearer " \o a : a \in AccessTokenValues}

-----------------------------------------------------------------------------
(* The OAuth server, one request at a time *)

Init ==
    /\ now = 0
    /\ ticks = 0
    /\ registeredClients = EmptyMap
    /\ authorizationCodes = EmptyMap
    /\ accessTokens = EmptyMap
    /\ refreshTokens = EmptyMap
    /\ random = [client |-> 0, code |-> 0, access |-> 0, refresh |-> 0, session |-> 0]
    /\ issued = EmptyMap
    /\ fate = EmptyMap
    /\ last = [op |-> "start"]
    /\ inflight = EmptyMap
    /\ replies = EmptyMap
    /\ sessions = EmptyMap
    /\ servers = 0
    /\ posts = EmptyMap
    /\ streams = EmptyMap

Next ==
    \/ \E body \in RegisterBodies : Register(body)
    \/ \E q \in AuthorizeQueries : Authorize(q)
    \/ \E body \in TokenBodies : Token(body)
    \/ \E h \in AuthorizationHeaders : PostMessage(h)

\* The clock stands still: no artifact expires
Spec == Init /\ [][Next]_vars

-----------------------------------------------------------------------------
(* Vocabulary of the properties *)

\* The step just taken handled a code exchange / a refresh / a validation
ExchangeStep == last'.op = "token" /\ last'.req.grant_type = "authorization_code"
RefreshStep == last'.op = "token" /\ last'.req.grant_type = "refresh_token"

\* The state is the one right after a code exchange / a refresh was handled
AfterExchange == last.op = "token" /\ last.req.grant_type = "authorization_code"
AfterRefresh == last.op = "token" /\ last.req.grant_type = "refresh_token"

IsTokenError(res, status, error) == res.status = status /\ res.body.error = error

AlreadyExchanged(code) == code \in DOMAIN fate /\ fate[code] = "exchanged"

NothingMinted == accessTokens' = accessTokens /\ refreshTokens' = refreshTokens

-----------------------------------------------------------------------------
(* C1: an authorization code yields tokens at most once *)

\* C1 (as stated): once an exchange of code c has succeeded, every later
\* exchange that presents c is answered invalid_grant and mints no access
\* token and no refresh token.
C1_SingleUse_AsStated ==
    [][(ExchangeStep /\ AlreadyExchanged(last'.req.code))
         => (IsTokenError(last'.res, 400, "invalid_grant") /\ NothingMinted)]_vars

\* C1 (amended): once an exchange of code c has succeeded, every later
\* exchange that presents c mints no token; it is answered invalid_grant,
\* except that a request whose client_secret fails the client check is
\* answered invalid_client before the code is looked at.
C1_SingleUse ==
    [][(ExchangeStep /\ AlreadyExchanged(last'.req.code))
         => /\ NothingMinted
            /\ IF ClientAuthFails(last'.req)
               THEN IsTokenError(last'.res, 401, "invalid_client")
               ELSE IsTokenError(last'.res, 400, "invalid_grant")]_vars

\* A code that was exchanged has been presented again and refused.
C1_Witness ==
    /\ AfterExchange
    /\ AlreadyExchanged(last.req.code)
    /\ IsTokenError(last.res, 400, "invalid_grant")
    /\ last.req.client_id = issued[last.req.code].client_id
    /\ accessTokens # EmptyMap

-----------------------------------------------------------------------------
(* The OAuth server with token requests in flight *)

Conns == 1..MaxConns

RaceAuthorizeQueries == {AuthorizeQuery(ClientIdOf(1), p[1], p[2]) : p \in PkceParams}

RaceBodies ==
    {ExchangeBody(c, ClientIdOf(1), s, v) :
        c \in Codes, s \in {Undefined, SecretOf(1)}, v \in {Undefined, "verifier123"}}

\* A client presents a code only after a redirect has delivered it.
NextRace ==
    \/ \E body \in RegisterBodies : Register(body)
    \/ \E q \in RaceAuthorizeQueries : Authorize(q)
    \/ \E conn \in Conns, body \in RaceBodies :
          body.code \in DOMAIN issued /\ TokenArrive(conn, body)
    \/ \E conn \in Conns : TokenRun(conn)
    \/ Tick

SpecRace == Init /\ [][NextRace]_vars

-----------------------------------------------------------------------------
(* C2: two concurrent exchanges of one code *)

\* The request of connection x was handled, and nothing but the state of the
\* code could make it fail: it passes the client check, names the client the
\* code was issued to, was handled before the code's expiry and carries the
\* verifier of the code's challenge (if the code has one).
ValidExchange(x) ==
    LET body == inflight[x]
        rec == issued[body.code]
    IN  /\ x \in DOMAIN replies
        /\ ~ClientAuthFails(body)
        /\ body.client_id = rec.client_id
        /\ replies[x].at <= rec.expires_at
        /\ Truthy(rec.code_challenge) =>
              /\ Truthy(body.code_verifier)
              /\ PkceChallenge(rec.code_challenge_method, body.code_verifier)
                    = rec.code_challenge

GotTokens(x) == x \in DOMAIN replies /\ replies[x].res.status = 200

\* C2: when two valid token requests that carry the same code, which no other
\* request has exchanged, have both been handled, in either order, exactly
\* one of them has received tokens and the other invalid_grant.
C2_ExactlyOneWins ==
    \A a, b \in Conns :
        (/\ a # b
         /\ ValidExchange(a) /\ ValidExchange(b)
         /\ inflight[a].code = inflight[b].code
         /\ \A c \in Conns \ {a, b} :
               ~(GotTokens(c) /\ inflight[c].code = inflight[a].code))
        => \/ GotTokens(a) /\ IsTokenError(replies[b].res, 400, "invalid_grant")
           \/ GotTokens(b) /\ IsTokenError(replies[a].res, 400, "invalid_grant")

\* Two valid requests for one code were open together and both are answered;
\* the one whose handler ran second is the loser.
C2_Witness ==
    /\ ValidExchange(1) /\ ValidExchange(2)
    /\ 1 \in replies[2].open
    /\ inflight[1].code = inflight[2].code
    /\ GotTokens(2)
    /\ IsTokenError(replies[1].res, 400, "invalid_grant")

-----------------------------------------------------------------------------
(* The code exchange under every PKCE setting *)

PkceFullParams ==
    {<<Undefined, Undefined>>,
     <<Sha256Base64Url("verifier123"), "S256">>,
     <<Sha256Base64Url(""), "S256">>,
     <<"", "S256">>,
     <<"verifier123", "plain">>,
     <<"verifier123", "S512">>,
     <<"verifier123", Undefined>>}

PkceVerifiers == {Undefined, "", "verifier123", "verifier456"}

PkceAuthorizeQueries == {AuthorizeQuery(ClientIdOf(1), p[1], p[2]) : p \in PkceFullParams}

PkceExchangeBodies ==
    {ExchangeBody(c, ClientIdOf(1), Undefined, v) : c \in Codes, v \in PkceVerifiers}

NextPkce ==
    \/ \E body \in RegisterBodies : Register(body)
    \/ \E q \in PkceAuthorizeQueries : Authorize(q)
    \/ \E body \in PkceExchangeBodies : Token(body)

SpecPkce == Init /\ [][NextPkce]_vars

\* The exchange just handled presented a code that was in the ledger and
\* unexpired, named the client the code was issued to and passed the client
\* check: only PKCE could make it fail.
OtherwiseValidExchangeStep ==
    /\ ExchangeStep
    /\ last'.req.code \in DOMAIN authorizationCodes
    /\ ~CodeExpired(authorizationCodes[last'.req.code], now)
    /\ authorizationCodes[last'.req.code].client_id = last'.req.client_id
    /\ ~ClientAuthFails(last'.req)

S256Outcome(challenge) ==
    IF Sha256Base64Url(last'.req.code_verifier) = challenge
    THEN last'.res.status = 200
    ELSE IsTokenError(last'.res, 400, "invalid_grant") /\ NothingMinted

-----------------------------------------------------------------------------
(* C3: PKCE with S256 *)

\* C3 (as stated): for a code stored with method S256 and challenge ch, an
\* otherwise valid exchange that carries a code_verifier succeeds when
\* base64url(SHA-256(code_verifier)) = ch, and otherwise fails with
\* invalid_grant and mints no token.
C3_S256_AsStated ==
    [][(/\ OtherwiseValidExchangeStep
        /\ authorizationCodes[last'.req.code].code_challenge_method = "S256"
        /\ authorizationCodes[last'.req.code].code_challenge # Undefined
        /\ last'.req.code_verifier # Undefined)
         => S256Outcome(authorizationCodes[last'.req.code].code_challenge)]_vars

\* C3 (amended): the same, for a stored challenge and a presented verifier
\* that are both non-empty strings.  (An empty challenge is treated as no
\* challenge, and an empty verifier as a missing one.)
C3_S256 ==
    [][(/\ OtherwiseValidExchangeStep
        /\ authorizationCodes[last'.req.code].code_challenge_method = "S256"
        /\ Truthy(authorizationCodes[last'.req.code].code_challenge)
        /\ Truthy(last'.req.code_verifier))
         => S256Outcome(authorizationCodes[last'.req.code].code_challenge)]_vars

\* An unexpired S256 code was presented by its client with a verifier whose
\* digest is not the stored challenge, and the exchange was refused.
C3_Witness ==
    /\ AfterExchange
    /\ last.req.code \in DOMAIN authorizationCodes
    /\ authorizationCodes[last.req.code].code_challenge_method = "S256"
    /\ Truthy(authorizationCodes[last.req.code].code_challenge)
    /\ last.req.code_verifier = "verifier456"
    /\ last.req.client_id = authorizationCodes[last.req.code].client_id
    /\ IsTokenError(last.res, 400, "invalid_grant")

-----------------------------------------------------------------------------
(* The OAuth server with the clock running *)

ClockAuthorizeQueries ==
    {AuthorizeQuery(ClientIdOf(1), Sha256Base64Url("verifier123"), "S256")}

ClockTokenBodies ==
    {ExchangeBody(c, ClientIdOf(1), s, v) :
        c \in Codes, s \in {Undefined, SecretOf(2)}, v \in {"verifier123"}}
    \cup {RefreshBody(r, ClientIdOf(1), Undefined) : r \in RefreshTokenValues}

NextClock ==
    \/ \E body \in RegisterBodies : Register(body)
    \/ \E q \in ClockAuthorizeQueries : Authorize(q)
    \/ \E body \in ClockTokenBodies : Token(body)
    \/ \E h \in AuthorizationHeaders : PostMessage(h)
    \/ Tick

SpecClock == Init /\ [][NextClock]_vars

-----------------------------------------------------------------------------
(* C4: an expired code *)

\* The exchange just handled presented a code whose expires_at had passed
ExpiredCodeStep ==
    /\ ExchangeStep
    /\ last'.req.code \in DOMAIN issued
    /\ now > issued[last'.req.code].expires_at

\* C4 (as stated): an exchange that presents a code after its expires_at
\* never succeeds, and if the code is still in the ledger the exchange is
\* answered expired_token and removes the code.
C4_Expired_AsStated ==
    [][ExpiredCodeStep
         => /\ last'.res.status # 200 /\ NothingMinted
            /\ last'.req.code \in DOMAIN authorizationCodes
                 => /\ IsTokenError(last'.res, 400, "expired_token")
                    /\ last'.req.code \notin DOMAIN authorizationCodes']_vars

\* C4 (amended): an exchange that presents a code after its expires_at never
\* succeeds; if the code is still in the ledger, the exchange is answered
\* expired_token and removes the code, unless the request carries a
\* client_secret that fails the client check: that request is answered
\* invalid_client and leaves the code in the ledger.
C4_Expired ==
    [][ExpiredCodeStep
         => /\ last'.res.status # 200 /\ NothingMinted
            /\ last'.req.code \in DOMAIN authorizationCodes
                 => IF ClientAuthFails(last'.req)
                    THEN /\ IsTokenError(last'.res, 401, "invalid_client")
                         /\ authorizationCodes' = authorizationCodes
                    ELSE /\ IsTokenError(last'.res, 400, "expired_token")
                         /\ last'.req.code \notin DOMAIN authorizationCodes']_vars

\* A code with a PKCE challenge was presented after its expiry by its own
\* client with the right verifier, was answered expired_token and is gone.
C4_Witness ==
    /\ AfterExchange
    /\ IsTokenError(last.res, 400, "expired_token")
    /\ last.req.code \in DOMAIN fate /\ fate[last.req.code] = "expired"
    /\ last.req.code \notin DOMAIN authorizationCodes
    /\ last.req.client_id = issued[last.req.code].client_id
    /\ issued[last.req.code].code_challenge_method = "S256"
    /\ Sha256Base64Url(last.req.code_verifier) = issued[last.req.code].code_challenge
    /\ now = issued[last.req.code].expires_at + 1

-----------------------------------------------------------------------------
(* C5: the client secret *)

\* C5 (as stated): an exchange that names a registered client with a
\* non-empty stored secret and does not present exactly that secret is
\* answered invalid_client and mints no token.
C5_Secret_AsStated ==
    [][(/\ ExchangeStep
        /\ last'.req.client_id \in DOMAIN registeredClients
        /\ Truthy(registeredClients[last'.req.client_id].client_secret)
        /\ last'.req.client_secret
              # registeredClients[last'.req.client_id].client_secret)
         => (IsTokenError(last'.res, 401, "invalid_client") /\ NothingMinted)]_vars

\* C5 (amended): the secret is validated only when the request presents one.
\* An exchange that presents a client_secret is answered invalid_client,
\* mints no token and leaves the ledger alone unless its client_id names a
\* registered client whose stored secret is exactly the presented one; an
\* exchange that presents no client_secret is never answered invalid_client.
C5_Secret ==
    [][ExchangeStep
         => IF Truthy(last'.req.client_secret)
            THEN (\/ last'.req.client_id \notin DOMAIN registeredClients
                  \/ registeredClients[last'.req.client_id].client_secret
                        # last'.req.client_secret)
                   => /\ IsTokenError(last'.res, 401, "invalid_client")
                      /\ NothingMinted
                      /\ authorizationCodes' = authorizationCodes
            ELSE last'.res.status # 401]_vars

\* A registered client's unexpired code was presented under that client's id
\* with another secret, and the exchange was answered invalid_client.
C5_Witness ==
    /\ AfterExchange
    /\ last.req.client_id \in DOMAIN registeredClients
    /\ Truthy(last.req.client_secret)
    /\ last.req.client_secret # registeredClients[last.req.client_id].client_secret
    /\ last.req.code \in DOMAIN authorizationCodes
    /\ authorizationCodes[last.req.code].client_id = last.req.client_id
    /\ IsTokenError(last.res, 401, "invalid_client")

-----------------------------------------------------------------------------
(* C6: authorize for an unknown client *)

AuthorizeStep == last'.op = "authorize"

\* C6: authorize with a client_id that is not in the registry answers 400
\* with a direct error, not a redirect, and stores no authorization code.
C6_UnknownClient ==
    [][(AuthorizeStep /\ last'.req.client_id \notin DOMAIN registeredClients)
         => /\ last'.res.status = 400
            /\ "location" \notin DOMAIN last'.res
            /\ last'.res.text = "Invalid client_id"
            /\ authorizationCodes' = authorizationCodes
            /\ random' = random]_vars

\* With a client registered, authorize named another client id and was
\* refused.
C6_Witness ==
    /\ last.op = "authorize"
    /\ registeredClients # EmptyMap
    /\ last.req.client_id \notin DOMAIN registeredClients
    /\ last.res.status = 400

-----------------------------------------------------------------------------
(* C7: bearer-token validation *)

ValidateStep == last'.op = "validate"
AfterValidate == last.op = "validate"

IsBearer(authorization) == StartsWith(authorization, "Bearer ")
BearerToken(authorization) == Substring(authorization, 7)

Unauthorized(res) == res.status = 401 /\ res.body.error \in {"invalid_token", "expired_token"}

\* The access tokens that have been issued and are no longer in the store
EvictedTokens ==
    {AccessTokenOf(k) : k \in 1..random.access} \ DOMAIN accessTokens

\* C7: validate answers with the bound client_id for a stored access token
\* as long as now <= expires_at and changes nothing; it answers 401 for a
\* token that is not in the store and for one whose expires_at has passed,
\* and the expired token is removed; a removed token never comes back, so it
\* stays unauthorized.
C7_Validate ==
    [][/\ (ValidateStep /\ IsBearer(last'.req.authorization))
            => LET token == BearerToken(last'.req.authorization)
               IN  IF token \notin DOMAIN accessTokens
                   THEN Unauthorized(last'.res) /\ accessTokens' = accessTokens
                   ELSE IF now <= accessTokens[token].expires_at
                   THEN /\ last'.res.status = 200
                        /\ last'.res.client_id = accessTokens[token].client_id
                        /\ accessTokens' = accessTokens
                   ELSE /\ Unauthorized(last'.res)
                        /\ accessTokens' = MapDelete(accessTokens, token)
       /\ (ValidateStep /\ ~IsBearer(last'.req.authorization))
            => Unauthorized(last'.res) /\ accessTokens' = accessTokens
       /\ \A t \in EvictedTokens : t \notin DOMAIN accessTokens']_vars

\* A token was validated the millisecond after its expires_at: it was refused
\* and evicted.
C7_Witness ==
    /\ AfterValidate
    /\ IsBearer(last.req.authorization)
    /\ BearerToken(last.req.authorization) \in EvictedTokens
    /\ IsTokenError(last.res, 401, "expired_token")
    /\ now = TokenExpiresAt(0) + 1

-----------------------------------------------------------------------------
(* C8: a successful refresh *)

\* C8: a successful refresh stores exactly one new access token, a value never
\* issued before, bound to the refresh token's client and expiring one hour
\* from now, which validates at once; every token already stored keeps its
\* record; refreshTokens is unchanged and the response carries no refresh
\* token, so the same refresh token can be presented again.
C8_Refresh ==
    [][(RefreshStep /\ last'.res.status = 200)
         => LET t == last'.res.body.access_token
            IN  /\ t \notin {AccessTokenOf(k) : k \in 1..random.access}
                /\ DOMAIN accessTokens' = DOMAIN accessTokens \cup {t}
                /\ \A a \in DOMAIN accessTokens : accessTokens'[a] = accessTokens[a]
                /\ accessTokens'[t].expires_at = now + TokenTtlMs
                /\ accessTokens'[t].client_id
                      = refreshTokens[last'.req.refresh_token].client_id
                /\ ~TokenExpired(accessTokens'[t], now')
                /\ refreshTokens' = refreshTokens
                /\ last'.req.refresh_token \in DOMAIN refreshTokens'
                /\ "refresh_token" \notin DOMAIN last'.res.body]_vars

\* A refresh token has just been used a second time: the store holds three
\* access tokens, the one of the exchange and one per refresh.
C8_Witness ==
    /\ AfterRefresh
    /\ last.res.status = 200
    /\ Cardinality(DOMAIN accessTokens) = 3
    /\ Cardinality(DOMAIN refreshTokens) = 1
    /\ last.res.body.access_token \in DOMAIN accessTokens

-----------------------------------------------------------------------------
(* C9: a refused refresh *)

UnknownOrForeignRefreshToken(body) ==
    \/ body.refresh_token \notin DOMAIN refreshTokens
    \/ refreshTokens[body.refresh_token].client_id # body.client_id

\* C9 (as stated): refresh with a refresh token that is not in the store, or
\* with a client_id other than the one the refresh token is bound to, is
\* answered invalid_grant and adds no access token.
C9_RefreshRefused_AsStated ==
    [][(RefreshStep /\ UnknownOrForeignRefreshToken(last'.req))
         => /\ IsTokenError(last'.res, 400, "invalid_grant")
            /\ accessTokens' = accessTokens]_vars

\* C9 (amended): such a refresh adds no access token; it is answered
\* invalid_grant, except that a request whose client_secret fails the client
\* check is answered invalid_client before the refresh token is looked at.
C9_RefreshRefused ==
    [][(RefreshStep /\ UnknownOrForeignRefreshToken(last'.req))
         => /\ accessTokens' = accessTokens
            /\ IF ClientAuthFails(last'.req)
               THEN IsTokenError(last'.res, 401, "invalid_client")
               ELSE IsTokenError(last'.res, 400, "invalid_grant")]_vars

\* A stored refresh token was presented under another client id and refused.
C9_Witness ==
    /\ AfterRefresh
    /\ last.req.refresh_token \in DOMAIN refreshTokens
    /\ refreshTokens[last.req.refresh_token].client_id # last.req.client_id
    /\ IsTokenError(last.res, 400, "invalid_grant")

-----------------------------------------------------------------------------
(* /mcp, the streamable-HTTP endpoint: the session table and the dispatch  *)
(* of one JSON-RPC message per POST.  A JSON message is a record that has  *)
(* exactly the fields the JSON object has.                                 *)

MaxPosts == 2

DERIBIT_API_BASE == "https://www.deribit.com/api/v2"

\* msg.f of a JSON object: undefined when the object has no such field
Field(msg, f) == IF f \in DOMAIN msg THEN msg[f] ELSE Undefined

\* typeof v === 'string'
IsString(v) == v # Undefined /\ ~StartsWith(v, "<number:")

\* template literal `${v}`
Interpolate(v) ==
    IF v = Undefined THEN "undefined"
    ELSE IF IsString(v) THEN v
    ELSE SubSeq(v, Len("<number:") + 1, Len(v) - 1)

SessionIdOf(k) == RandomHex("session", k)

TOOLS_LIST ==
    << [name |-> "get_ticker",
        description |-> "Get ticker data for a specific instrument including price, volume, and funding rate",
        inputSchema |-> [type |-> "object",
                         properties |-> {"instrument_name"},
                         required |-> <<"instrument_name">>]],
       [name |-> "get_instruments",
        description |-> "Get all available trading instruments on Deribit",
        inputSchema |-> [type |-> "object",
                         properties |-> {"currency", "kind"},
                         required |-> <<>>]],
       [name |-> "get_orderbook",
        description |-> "Get order book data for an instrument",
        inputSchema |-> [type |-> "object",
                         properties |-> {"instrument_name", "depth"},
                         required |-> <<"instrument_name">>]] >>

\* const sessionId = req.headers['mcp-session-id'] || crypto.randomBytes(16)...
SessionIdFor(header) ==
    IF Truthy(header) THEN header ELSE SessionIdOf(random.session + 1)

\* JSON.stringify drops a field whose value is undefined, so a response to a
\* message without id has no id field.
JsonRpcResult(msg, result) ==
    IF "id" \in DOMAIN msg
    THEN [jsonrpc |-> "2.0", id |-> msg.id, result |-> result]
    ELSE [jsonrpc |-> "2.0", result |-> result]

JsonRpcError(msg, code, message) ==
    IF "id" \in DOMAIN msg
    THEN [jsonrpc |-> "2.0", id |-> msg.id, error |-> [code |-> code, message |-> message]]
    ELSE [jsonrpc |-> "2.0", error |-> [code |-> code, message |-> message]]

InitializeResult ==
    [protocolVersion |-> "2025-06-18",
     capabilities |-> [tools |-> EmptyMap],
     serverInfo |-> [name |-> "deribit-mcp-server", version |-> "1.0.0"]]

\* res.writeHead(200, {..., 'Mcp-Session-Id': sessionId}); res.end(JSON.stringify(response))
Answered(sid, body) == [status |-> 200, session_id |-> sid, body |-> body]

\* res.status(200).end(): no Mcp-Session-Id header, no body
Acknowledged == [status |-> 200, session_id |-> Undefined]

\* Mutant: the failure leaves the handler and no body is written
InternalError_NoBody(msg, message) == [status |-> 500, session_id |-> Undefined]

\* the catch block: res.status(500).json({... code: -32603 ...})
InternalError(msg, message) ==
    [status |-> 500, session_id |-> Undefined, body |-> JsonRpcError(msg, -32603, message)]

NoResponse == [status |-> 0]

\* the switch of the tools/call handler
ToolEndpoint(name) ==
    CASE name = "get_ticker" -> "/public/ticker"
      [] name = "get_instruments" -> "/public/get_instruments"
      [] name = "get_orderbook" -> "/public/get_order_book"
      [] OTHER -> ""

ToolText(text) == [content |-> <<[type |-> "text", text |-> text]>>]
\* Mutant: the failure is reported without the isError flag
ToolError_Unflagged(message) ==
    [content |-> <<[type |-> "text", text |-> "Error: " \o message]>>]

ToolError(message) ==
    [content |-> <<[type |-> "text", text |-> "Error: " \o message]>>, isError |-> TRUE]

\* What fetch(url) and response.json() can come to: a result, an error object
\* of the API, a rejected fetch, or a body that is not JSON.
FetchOutcomes == {"result", "error", "rejected", "unparsable"}

ToolResult(msg, outcome) ==
    LET url == DERIBIT_API_BASE \o ToolEndpoint(msg.params.name)
    IN  CASE outcome = "result" -> ToolText("result of " \o url)
          [] outcome = "error" -> ToolError("error of " \o url)
          [] outcome = "rejected" -> ToolError("fetch failed")
          [] OTHER -> ToolError("Unexpected token < in JSON at position 0")

\* the body of GET /mcp
ServerInfo ==
    [status |-> "ok", name |-> "deribit-mcp-server", version |-> "1.0.0",
     transport |-> "streamable-http", capabilities |-> [tools |-> EmptyMap],
     available_tools |-> Len(TOOLS_LIST)]

\* Mutant: a notification is answered whether it has an id or not
IdFalsy_Never(msg) == FALSE

\* `!request.id': a message without id, or with the id 0
IdFalsy(msg) == "id" \notin DOMAIN msg \/ msg.id = 0

\* Mutant: every POST creates a Server object and stores it under the id
NeedsNewSession_Always(sid, msg) == TRUE

\* Mutant: an initialize reuses the session it finds
NeedsNewSession_ReuseOnInitialize(sid, msg) ==
    sid \notin DOMAIN sessions

\* if (!session || isInitialize)
NeedsNewSession(sid, msg) ==
    sid \notin DOMAIN sessions \/ Field(msg, "method") = "initialize"

\* Mutant: every message is handed to the tool handler
Dispatched_Upstream(sid, msg) == [pc |-> "fetching", res |-> NoResponse]

\* The dispatch on request.method, from `const request = req.body' to the
\* response or to the await of the upstream fetch.
Dispatched(sid, msg) ==
    LET method == Field(msg, "method")
        done(res) == [pc |-> "done", res |-> res]
    IN  CASE method = "initialize" ->
                done(Answered(sid, JsonRpcResult(msg, InitializeResult)))
          [] method = "tools/list" ->
                done(Answered(sid, JsonRpcResult(msg, [tools |-> TOOLS_LIST])))
          [] method = "tools/call" ->
                IF "params" \notin DOMAIN msg
                THEN done(InternalError(msg, "Cannot destructure property 'name' of 'request.params' as it is undefined."))
                ELSE IF ToolEndpoint(Field(msg.params, "name")) = ""
                THEN done(Answered(sid, JsonRpcResult(msg,
                        ToolError("Unknown tool: " \o Interpolate(Field(msg.params, "name"))))))
                ELSE [pc |-> "fetching", res |-> NoResponse]
          [] Truthy(method) /\ ~IsString(method) ->
                \* request.method.startsWith(...) throws a TypeError
                done(InternalError(msg, "request.method.startsWith is not a function"))
          [] Truthy(method) /\ IsString(method) /\ StartsWith(method, "notifications/") ->
                IF IdFalsy(msg)
                THEN done(Acknowledged)
                ELSE done(Answered(sid, JsonRpcResult(msg, EmptyMap)))
          [] OTHER ->
                done(Answered(sid, JsonRpcError(msg, -32601,
                        "Method not found: " \o Interpolate(method))))

NextPost == Cardinality(DOMAIN posts) + 1

DrawSessionId(header) ==
    random' = IF Truthy(header) THEN random ELSE [random EXCEPT !.session = @ + 1]

\* GET /mcp: the server description
McpGet(header) ==
    /\ NextPost <= MaxPosts
    /\ DrawSessionId(header)
    /\ posts' = MapSet(posts, NextPost,
                       [http |-> "GET", header |-> header, sid |-> SessionIdFor(header),
                        msg |-> EmptyMap,
                        pc |-> "done", server |-> 0, known |-> FALSE, seen |-> servers,
                        fetched |-> "none",
                        res |-> [status |-> 200, session_id |-> Undefined,
                                 body |-> ServerInfo]])
    /\ UNCHANGED <<sessions, servers, streams>>
    /\ UNCHANGED <<now, ticks, registeredClients, authorizationCodes, accessTokens,
                   refreshTokens, issued, fate, last, inflight, replies>>

\* any other HTTP method: 405
McpOtherMethod(header) ==
    /\ NextPost <= MaxPosts
    /\ DrawSessionId(header)
    /\ posts' = MapSet(posts, NextPost,
                       [http |-> "DELETE", header |-> header, sid |-> SessionIdFor(header),
                        msg |-> EmptyMap,
                        pc |-> "done", server |-> 0, known |-> FALSE, seen |-> servers,
                        fetched |-> "none",
                        res |-> [status |-> 405, session_id |-> Undefined,
                                 body |-> [error |-> "Method not allowed"]]])
    /\ UNCHANGED <<sessions, servers, streams>>
    /\ UNCHANGED <<now, ticks, registeredClients, authorizationCodes, accessTokens,
                   refreshTokens, issued, fate, last, inflight, replies>>

\* POST /mcp up to its first await: either createMCPServer() and the await of
\* mcpServer.connect(mockTransport), or, with the session found, the dispatch.
McpPost(header, msg) ==
    LET sid == SessionIdFor(header)
    IN  /\ NextPost <= MaxPosts
        /\ DrawSessionId(header)
        /\ IF NeedsNewSession(sid, msg)
           THEN /\ servers' = servers + 1
                /\ posts' = MapSet(posts, NextPost,
                                   [http |-> "POST", header |-> header, sid |-> sid, msg |-> msg,
                                    known |-> sid \in DOMAIN sessions, seen |-> servers,
                                    fetched |-> "none",
                                    pc |-> "connecting", server |-> servers + 1,
                                    res |-> NoResponse])
           ELSE /\ servers' = servers
                /\ posts' = MapSet(posts, NextPost,
                                   [http |-> "POST", header |-> header, sid |-> sid, msg |-> msg,
                                    known |-> sid \in DOMAIN sessions, seen |-> servers,
                                    fetched |-> "none",
                                    pc |-> Dispatched(sid, msg).pc,
                                    server |-> sessions[sid].mcpServer,
                                    res |-> Dispatched(sid, msg).res])
        /\ UNCHANGED <<sessions, streams>>
        /\ UNCHANGED <<now, ticks, registeredClients, authorizationCodes, accessTokens,
                       refreshTokens, issued, fate, last, inflight, replies>>

\* mcpServer.connect(mockTransport) has resolved: the session is stored under
\* the id, whatever was stored there before, and the message is dispatched.
\* (connect() awaits the transport's start(), which resolves at once; other
\* handlers are allowed to run before the continuation, which includes the
\* schedule in which none does.)
McpConnected(rid) ==
    /\ rid \in DOMAIN posts
    /\ posts[rid].pc = "connecting"
    /\ sessions' = MapSet(sessions, posts[rid].sid,
                          [mcpServer |-> posts[rid].server, connected |-> TRUE])
    /\ posts' = [posts EXCEPT ![rid].pc = Dispatched(posts[rid].sid, posts[rid].msg).pc,
                              ![rid].res = Dispatched(posts[rid].sid, posts[rid].msg).res]
    /\ UNCHANGED <<servers, streams>>
    /\ UNCHANGED <<oauthVars, last, inflight, replies>>

\* the tools/call handler of the session's Server object has settled
McpFetched(rid, outcome) ==
    /\ rid \in DOMAIN posts
    /\ posts[rid].pc = "fetching"
    /\ posts[rid].fetched = "none"
    /\ posts' = [posts EXCEPT ![rid].pc = "done",
                              ![rid].fetched = outcome,
                              ![rid].res = Answered(posts[rid].sid,
                                    JsonRpcResult(posts[rid].msg,
                                                  ToolResult(posts[rid].msg, outcome)))]
    /\ UNCHANGED <<sessions, servers, streams>>
    /\ UNCHANGED <<oauthVars, last, inflight, replies>>

\* The upstream of request rid will never answer: fetch(url) is called without
\* a timeout or an abort signal, so its promise stays pending and the handler
\* stays suspended.
UpstreamSilent(rid) ==
    /\ rid \in DOMAIN posts
    /\ posts[rid].pc = "fetching"
    /\ posts[rid].fetched = "none"
    /\ posts' = [posts EXCEPT ![rid].fetched = "never"]
    /\ UNCHANGED <<sessions, servers, streams>>
    /\ UNCHANGED <<oauthVars, last, inflight, replies>>

-----------------------------------------------------------------------------
(* The session endpoint on its own *)

McpMessages ==
    { [jsonrpc |-> "2.0", id |-> 1, method |-> "initialize"],
      [jsonrpc |-> "2.0", id |-> 2, method |-> "initialize"],
      [jsonrpc |-> "2.0", id |-> 3, method |-> "tools/list"],
      [jsonrpc |-> "2.0", id |-> 4, method |-> "tools/call",
       params |-> [name |-> "get_ticker"]],
      [jsonrpc |-> "2.0", id |-> 5, method |-> "tools/call",
       params |-> [name |-> "get_balance"]],
      [jsonrpc |-> "2.0", method |-> "notifications/initialized"],
      [jsonrpc |-> "2.0", id |-> 6, method |-> "ping"],
      [jsonrpc |-> "2.0", id |-> 7, method |-> JsNumber(5)],
      [jsonrpc |-> "2.0", id |-> 8, method |-> "tools/call"] }

\* The Mcp-Session-Id header of a request: absent, chosen by the client, or
\* an id the server has generated.
SessionHeaders == {Undefined, "session_A"} \cup {SessionIdOf(k) : k \in 1..random.session}

NextMcp ==
    \/ \E h \in SessionHeaders : McpGet(h)
    \/ \E h \in SessionHeaders : McpOtherMethod(h)
    \/ \E h \in SessionHeaders, m \in McpMessages : McpPost(h, m)
    \/ \E rid \in 1..MaxPosts : McpConnected(rid)
    \/ \E rid \in 1..MaxPosts, o \in FetchOutcomes : McpFetched(rid, o)

SpecMcp == Init /\ [][NextMcp]_vars

\* the requests whose message is an initialize
InitializePosts == {r \in DOMAIN posts : Field(posts[r].msg, "method") = "initialize"}

\* request r, an initialize for an id already in the table, is answered by this step
ReinitializeAnswered(r) ==
    /\ r \in DOMAIN posts'
    /\ Field(posts'[r].msg, "method") = "initialize"
    /\ posts'[r].known
    /\ posts'[r].pc = "done"
    /\ r \in DOMAIN posts => posts[r].pc # "done"

\* a JSON-RPC response without its id
WithoutId(body) == [f \in DOMAIN body \ {"id"} |-> body[f]]

\* C10: an initialize posted for a session id that is already in the session
\* table leaves that id bound to a Server object created for this request,
\* one that no earlier request has held and the table has never contained
\* (so nothing of the previous handler survives); every initialize response
\* carries the same result (protocolVersion 2025-06-18, capabilities
\* {tools: {}}, serverInfo) and two of them differ at most in the echoed id.
C10_Reinitialize ==
    /\ [][\A r \in 1..MaxPosts : ReinitializeAnswered(r) =>
            /\ posts'[r].sid \in DOMAIN sessions
            /\ sessions'[posts'[r].sid].mcpServer = posts'[r].server
            /\ posts'[r].server > posts'[r].seen
            /\ sessions'[posts'[r].sid].mcpServer # sessions[posts'[r].sid].mcpServer
            /\ \A q \in DOMAIN posts' \ {r} : posts'[q].server # posts'[r].server
            /\ posts'[r].res = Answered(posts'[r].sid,
                                        JsonRpcResult(posts'[r].msg, InitializeResult))]_vars
    /\ [](\A r1, r2 \in InitializePosts :
            posts[r1].pc = "done" /\ posts[r2].pc = "done" =>
                /\ posts[r1].res.status = 200
                /\ posts[r1].res.body.result = InitializeResult
                /\ WithoutId(posts[r1].res.body) = WithoutId(posts[r2].res.body)
                /\ posts[r1].res.body.id = posts[r1].msg.id)

\* Two initialize requests with different ids have been answered on the same
\* session id, the second one arrived when the id was in the table, and the
\* id is bound to the second one's Server object, not the first one's.
C10_Witness ==
    \E r1, r2 \in InitializePosts :
        /\ r1 < r2
        /\ posts[r1].sid = posts[r2].sid
        /\ posts[r1].pc = "done" /\ posts[r2].pc = "done"
        /\ posts[r2].known
        /\ posts[r1].msg.id # posts[r2].msg.id
        /\ sessions[posts[r2].sid].mcpServer = posts[r2].server
        /\ posts[r2].server # posts[r1].server

-----------------------------------------------------------------------------
\* The messages whose dispatch throws: a method that is not a string has no
\* startsWith, and the tools/call handler destructures request.params.
Faults(msg) ==
    \/ Truthy(Field(msg, "method")) /\ ~IsString(Field(msg, "method"))
    \/ Field(msg, "method") = "tools/call" /\ "params" \notin DOMAIN msg

\* the POSTs whose message is not an initialize
OtherPosts(ps) ==
    {r \in DOMAIN ps : ps[r].http = "POST" /\ Field(ps[r].msg, "method") # "initialize"}

\* request r is received by this step
Arrives(r) == r \notin DOMAIN posts /\ r \in DOMAIN posts'

\* the handler of request r, received earlier, runs on in this step
Resumes(r) == r \in DOMAIN posts /\ posts'[r] # posts[r]

\* C11: a POST that is not an initialize and names an id that is not in the
\* session table gets a Server object of its own, which is stored under the
\* id when connect has resolved, and is then answered like any other (200
\* unless the dispatch of the message throws, the tool list for tools/list);
\* one that names an id in the table holds
\* the Server object stored there, creates none, and no step of its handler
\* changes the session table.
C11_LazySession ==
    [][\A r \in OtherPosts(posts') :
         /\ Arrives(r) /\ posts'[r].sid \notin DOMAIN sessions =>
                /\ servers' = servers + 1
                /\ posts'[r].server = servers'
                /\ posts'[r].pc = "connecting"
         /\ Resumes(r) /\ posts[r].pc = "connecting" =>
                /\ posts'[r].sid \in DOMAIN sessions'
                /\ sessions'[posts'[r].sid].mcpServer = posts'[r].server
                /\ posts'[r].pc \in {"done", "fetching"}
                /\ posts'[r].pc = "done" /\ ~Faults(posts'[r].msg) =>
                        posts'[r].res.status = 200
                /\ posts'[r].msg.method = "tools/list" =>
                        posts'[r].res.body.result.tools = TOOLS_LIST
         /\ Arrives(r) /\ posts'[r].sid \in DOMAIN sessions =>
                /\ servers' = servers
                /\ sessions' = sessions
                /\ posts'[r].server = sessions[posts'[r].sid].mcpServer
                /\ posts'[r].pc \in {"done", "fetching"}
         /\ Resumes(r) /\ posts[r].known =>
                /\ servers' = servers
                /\ sessions' = sessions
                /\ posts'[r].server = posts[r].server]_vars

\* A tools/list on an unseen id was answered with the tool list and its
\* Server object stored; a later tools/call on that id was answered by the
\* same Server object, which is still the one stored.
C11_Witness ==
    \E r, q \in OtherPosts(posts) :
        /\ r < q
        /\ posts[r].sid = posts[q].sid
        /\ ~posts[r].known /\ posts[q].known
        /\ posts[r].msg.method = "tools/list" /\ posts[q].msg.method = "tools/call"
        /\ posts[r].pc = "done" /\ posts[q].pc = "done"
        /\ posts[q].res.status = 200
        /\ posts[q].server = posts[r].server
        /\ sessions[posts[q].sid].mcpServer = posts[r].server

-----------------------------------------------------------------------------
\* the answered POSTs
AnsweredPosts == {r \in DOMAIN posts : posts[r].http = "POST" /\ posts[r].pc = "done"}

IsNotification(msg) ==
    /\ IsString(Field(msg, "method"))
    /\ StartsWith(Field(msg, "method"), "notifications/")

\* C12: a POST whose method starts with notifications/ and that has no id is
\* answered 200 with an empty body: no JSON-RPC object is written.
C12_NotificationNoBody ==
    \A r \in AnsweredPosts :
        IsNotification(posts[r].msg) /\ "id" \notin DOMAIN posts[r].msg =>
            /\ posts[r].res.status = 200
            /\ "body" \notin DOMAIN posts[r].res

\* A notification without id has been answered.
C12_Witness ==
    \E r \in AnsweredPosts :
        /\ posts[r].msg = [jsonrpc |-> "2.0", method |-> "notifications/initialized"]
        /\ posts[r].res = Acknowledged

\* the answered tools/call requests that name a tool
ToolCalls == {r \in AnsweredPosts : /\ Field(posts[r].msg, "method") = "tools/call"
                                    /\ "params" \in DOMAIN posts[r].msg
                                    /\ "name" \in DOMAIN posts[r].msg.params}

UnknownTool(r) == ToolEndpoint(Field(posts[r].msg.params, "name")) = ""

UpstreamFailed(r) == posts[r].fetched \in {"error", "rejected", "unparsable"}

\* C13: a tools/call whose invocation fails (the tool name is unknown, the
\* upstream answers with an error object, the fetch is rejected or its body
\* does not parse) is answered 200 with a JSON-RPC result that echoes the
\* request id and has the shape {content: [{type: 'text', text: 'Error: ...'}],
\* isError: true}; the response has no error member.
C13_ToolFailureInBand ==
    \A r \in ToolCalls :
        UnknownTool(r) \/ UpstreamFailed(r) =>
            /\ posts[r].res.status = 200
            /\ DOMAIN posts[r].res.body = {"jsonrpc", "id", "result"}
            /\ posts[r].res.body.id = posts[r].msg.id
            /\ DOMAIN posts[r].res.body.result = {"content", "isError"}
            /\ posts[r].res.body.result.isError = TRUE
            /\ Len(posts[r].res.body.result.content) = 1
            /\ posts[r].res.body.result.content[1].type = "text"
            /\ StartsWith(posts[r].res.body.result.content[1].text, "Error: ")

\* Two failed calls have been answered in band: one of an unknown tool and
\* one whose upstream call failed.
C13_Witness ==
    \E r1, r2 \in ToolCalls :
        /\ UnknownTool(r1)
        /\ UpstreamFailed(r2)
        /\ posts[r1].res.body.result.isError
        /\ posts[r2].res.body.result.isError

-----------------------------------------------------------------------------
\* the answered POSTs whose method is none of initialize, tools/list,
\* tools/call and notifications/*
UnroutedPosts ==
    {r \in AnsweredPosts :
        /\ Field(posts[r].msg, "method") \notin {"initialize", "tools/list", "tools/call"}
        /\ ~IsNotification(posts[r].msg)}

\* C14: a POST whose method is none of initialize, tools/list, tools/call and
\* notifications/* is answered with a JSON-RPC error object of code -32601
\* whose id is the request's id.
C14_MethodNotFound ==
    \A r \in UnroutedPosts :
        /\ "body" \in DOMAIN posts[r].res
        /\ "error" \in DOMAIN posts[r].res.body
        /\ posts[r].res.body.error.code = -32601
        /\ "id" \in DOMAIN posts[r].msg =>
                /\ "id" \in DOMAIN posts[r].res.body
                /\ posts[r].res.body.id = posts[r].msg.id

-----------------------------------------------------------------------------
\* C15: a POST whose dispatch throws is answered with a body, a JSON-RPC
\* error object of code -32603 that carries the request's id; and every
\* answered POST other than an acknowledged notification has a body.
C15_InternalError ==
    \A r \in AnsweredPosts :
        /\ Faults(posts[r].msg) =>
                /\ "body" \in DOMAIN posts[r].res
                /\ DOMAIN posts[r].res.body = {"jsonrpc", "id", "error"}
                /\ posts[r].res.body.error.code = -32603
                /\ posts[r].res.body.id = posts[r].msg.id
        /\ "body" \notin DOMAIN posts[r].res =>
                IsNotification(posts[r].msg) /\ IdFalsy(posts[r].msg)

\* Both faults have been answered: a tools/call without params and a
\* message whose method is a number.
C15_Witness ==
    \E r1, r2 \in AnsweredPosts :
        /\ posts[r1].msg = [jsonrpc |-> "2.0", id |-> 8, method |-> "tools/call"]
        /\ posts[r2].msg = [jsonrpc |-> "2.0", id |-> 7, method |-> JsNumber(5)]
        /\ posts[r1].res.status = 500
        /\ posts[r2].res.status = 500

\* C16: every response to a POST on /mcp carries the Mcp-Session-Id header
\* with the session id used for the request.
C16_SessionHeader ==
    \A r \in AnsweredPosts : posts[r].res.session_id = posts[r].sid

-----------------------------------------------------------------------------
(* The session endpoint with an upstream that may stay silent.  A suspended *)
(* handler runs on once its promise settles: connect always resolves, and   *)
(* the fetch of an upstream that answers settles.                           *)

LiveMessages ==
    { [jsonrpc |-> "2.0", id |-> 1, method |-> "initialize"],
      [jsonrpc |-> "2.0", id |-> 3, method |-> "tools/list"],
      [jsonrpc |-> "2.0", id |-> 4, method |-> "tools/call",
       params |-> [name |-> "get_ticker"]] }

NextMcpLive ==
    \/ \E h \in {Undefined, "session_A"}, m \in LiveMessages : McpPost(h, m)
    \/ \E rid \in 1..MaxPosts : McpConnected(rid)
    \/ \E rid \in 1..MaxPosts, o \in FetchOutcomes : McpFetched(rid, o)
    \/ \E rid \in 1..MaxPosts : UpstreamSilent(rid)

SpecMcpLive ==
    /\ Init
    /\ [][NextMcpLive]_vars
    /\ \A rid \in 1..MaxPosts :
            /\ WF_vars(McpConnected(rid))
            /\ WF_vars(\E o \in FetchOutcomes : McpFetched(rid, o))

ToolCallReceived(r) ==
    IF r \in DOMAIN posts THEN Field(posts[r].msg, "method") = "tools/call" ELSE FALSE

PostAnswered(r) == IF r \in DOMAIN posts THEN posts[r].pc = "done" ELSE FALSE

\* C19: every tools/call that is received is eventually answered, also when
\* its upstream never answers.
C19_ToolCallAnswered ==
    \A r \in 1..MaxPosts : ToolCallReceived(r) ~> PostAnswered(r)

\* C20: no initialize stores a new Server object under a session id while a
\* tools/call of that session id is suspended on its upstream fetch.
C20_NoReplaceInFlight ==
    [][\A r \in DOMAIN posts :
            /\ Field(posts[r].msg, "method") = "initialize"
            /\ posts[r].pc = "connecting"
            /\ posts'[r].pc # "connecting"
            => ~\E q \in DOMAIN posts :
                    /\ posts[q].sid = posts[r].sid
                    /\ Field(posts[q].msg, "method") = "tools/call"
                    /\ posts[q].pc = "fetching"]_vars

-----------------------------------------------------------------------------
(* The server-sent-event transport behind the bearer-token middleware:      *)
(* GET /sse and POST /message.                                              *)

MaxStreams == 2

NextStream == Cardinality(DOMAIN streams) + 1

\* GET /sse: validateToken, then a Server object of its own connected to an
\* SSEServerTransport over the response, which announces the endpoint
\* '/message' on the stream.  The close listener only logs.
SseOpen(authorization) ==
    LET v == ValidateToken(authorization)
    IN  /\ NextStream <= MaxStreams
        /\ accessTokens' = v.access
        /\ IF v.passed
           THEN /\ servers' = servers + 1
                /\ streams' = MapSet(streams, NextStream,
                                     [route |-> "/sse", sid |-> Undefined,
                                      client_id |-> v.client_id,
                                      server |-> servers + 1,
                                      open |-> TRUE, keepAlive |-> FALSE,
                                      events |-> <<"endpoint /message">>])
                /\ last' = [op |-> "sse", req |-> [authorization |-> authorization],
                            res |-> [status |-> 200, client_id |-> v.client_id]]
           ELSE /\ UNCHANGED <<servers, streams>>
                /\ last' = [op |-> "sse", req |-> [authorization |-> authorization],
                            res |-> v.res]
        /\ UNCHANGED <<now, ticks, registeredClients, authorizationCodes, refreshTokens,
                       random, issued, fate, inflight, replies, sessions, posts>>

\* the client of an /sse stream goes away: req.on('close') logs
SseClose(c) ==
    /\ c \in DOMAIN streams
    /\ streams[c].route = "/sse"
    /\ streams[c].open
    /\ streams' = [streams EXCEPT ![c].open = FALSE]
    /\ UNCHANGED <<oauthVars, last, inflight, replies, sessions, servers, posts>>

-----------------------------------------------------------------------------
(* The end-to-end flow: register, authorize with an S256 challenge, exchange *)
(* with the verifier, open the stream, post a tools/list.                    *)

ToolsListMessage == [jsonrpc |-> "2.0", id |-> 3, method |-> "tools/list"]

FlowHeaders == {"Bearer " \o t : t \in AccessTokenValues}

NextFlow ==
    \/ \E b \in RegisterBodies : Register(b)
    \/ Authorize(AuthorizeQuery(ClientIdOf(1), Sha256Base64Url("verifier123"), "S256"))
    \/ \E c \in Codes : Token(ExchangeBody(c, ClientIdOf(1), Undefined, "verifier123"))
    \/ \E h \in FlowHeaders : SseOpen(h)
    \/ \E c \in 1..MaxStreams : SseClose(c)
    \/ \E h \in FlowHeaders :
            PostMessageOf([authorization |-> h, body |-> ToolsListMessage])

SpecFlow == Init /\ [][NextFlow]_vars

\* the step handles a tools/list posted with an access token that the flow
\* has issued and that has not expired, while a stream of the token's client
\* is open
FlowToolsListStep ==
    /\ last'.op = "validate"
    /\ "body" \in DOMAIN last'.req
    /\ last'.req.body.method = "tools/list"
    /\ IsBearer(last'.req.authorization)
    /\ BearerToken(last'.req.authorization) \in DOMAIN accessTokens
    /\ ~TokenExpired(accessTokens[BearerToken(last'.req.authorization)], now)
    /\ \E c \in DOMAIN streams :
            /\ streams[c].open
            /\ streams[c].client_id =
                    accessTokens[BearerToken(last'.req.authorization)].client_id

\* C17: after register, authorize with an S256 challenge and an exchange with
\* the verifier (access_token, refresh_token, expires_in 3600), a tools/list
\* that carries the access token reaches the protocol handler and a non-empty
\* tool array comes back, in the response or on the client's stream.
C17_EndToEnd ==
    [][FlowToolsListStep =>
        \/ /\ "body" \in DOMAIN last'.res
           /\ Len(last'.res.body.result.tools) > 0
        \/ \E c \in DOMAIN streams :
                /\ streams[c].open
                /\ Len(streams'[c].events) > Len(streams[c].events)]_vars

-----------------------------------------------------------------------------
(* /mcp with the optional event stream: POST creates or replaces the session *)
(* and hands the message to the Server object, GET holds a stream open with  *)
(* a keep-alive comment every 30 seconds.                                    *)

MaxKeepAlives == 1

\* await session.mcpServer.handleRequest(req.body): of the library's Server
\* object the source shows only that the call is made; it returns a response
\* or it throws.
HandleRequestOutcomes == {"returned", "thrown"}

\* POST /mcp: the session is created or replaced before the headers are
\* written; the response ends with what handleRequest returned or with the
\* -32603 object of the catch block.
McpSessionPost(header, msg, outcome) ==
    LET sid == SessionIdFor(header)
    IN  /\ NextPost <= MaxPosts
        /\ DrawSessionId(header)
        /\ IF NeedsNewSession(sid, msg)
           THEN /\ servers' = servers + 1
                /\ sessions' = MapSet(sessions, sid,
                                      [mcpServer |-> servers + 1, responses |-> <<>>])
           ELSE UNCHANGED <<servers, sessions>>
        /\ posts' = MapSet(posts, NextPost,
                           [http |-> "POST", header |-> header, sid |-> sid, msg |-> msg,
                            known |-> sid \in DOMAIN sessions, seen |-> servers,
                            fetched |-> "none", pc |-> "done",
                            server |-> sessions'[sid].mcpServer,
                            res |-> Answered(sid,
                                      IF outcome = "returned"
                                      THEN [handled |-> msg]
                                      ELSE JsonRpcError(msg, -32603,
                                             "session.mcpServer.handleRequest is not a function"))])
        /\ UNCHANGED streams
        /\ UNCHANGED <<now, ticks, registeredClients, authorizationCodes, accessTokens,
                       refreshTokens, issued, fate, last, inflight, replies>>

\* GET /mcp: the event stream of a session id, with its keep-alive interval
McpStreamOpen(header) ==
    /\ NextStream <= MaxStreams
    /\ DrawSessionId(header)
    /\ streams' = MapSet(streams, NextStream,
                         [route |-> "/mcp", sid |-> SessionIdFor(header),
                          client_id |-> Undefined, server |-> 0,
                          open |-> TRUE, keepAlive |-> TRUE, events |-> <<>>])
    /\ UNCHANGED <<sessions, servers, posts>>
    /\ UNCHANGED <<now, ticks, registeredClients, authorizationCodes, accessTokens,
                   refreshTokens, issued, fate, last, inflight, replies>>

\* the interval fires: res.write(':keepalive\n\n')
KeepAlive(c) ==
    /\ c \in DOMAIN streams
    /\ streams[c].keepAlive
    /\ Len(streams[c].events) < MaxKeepAlives
    /\ streams' = [streams EXCEPT ![c].events = Append(@, ":keepalive")]
    /\ UNCHANGED <<oauthVars, last, inflight, replies, sessions, servers, posts>>

\* Mutant: the close listener leaves the interval running
McpStreamClose_TimerKept(c) ==
    /\ c \in DOMAIN streams
    /\ streams[c].route = "/mcp"
    /\ streams[c].open
    /\ streams' = [streams EXCEPT ![c].open = FALSE]
    /\ UNCHANGED <<oauthVars, last, inflight, replies, sessions, servers, posts>>

\* req.on('close'): clearInterval(keepAliveInterval) and a log line
McpStreamClose(c) ==
    /\ c \in DOMAIN streams
    /\ streams[c].route = "/mcp"
    /\ streams[c].open
    /\ streams' = [streams EXCEPT ![c].open = FALSE, ![c].keepAlive = FALSE]
    /\ UNCHANGED <<oauthVars, last, inflight, replies, sessions, servers, posts>>

StreamMessages ==
    { [jsonrpc |-> "2.0", id |-> 1, method |-> "initialize"],
      [jsonrpc |-> "2.0", id |-> 3, method |-> "tools/list"] }

StreamHeaders == {Undefined, "session_A"}

NextStreams ==
    \/ \E h \in StreamHeaders, m \in StreamMessages, o \in HandleRequestOutcomes :
            McpSessionPost(h, m, o)
    \/ \E h \in StreamHeaders : McpStreamOpen(h)
    \/ \E c \in 1..MaxStreams : KeepAlive(c)
    \/ \E c \in 1..MaxStreams : McpStreamClose(c)

SpecStreams == Init /\ [][NextStreams]_vars

\* C18: when the connection of a session's stream closes, the session is
\* torn down: from the close on the session id has no entry in the session
\* table.
C18_ClosedSessionRemoved ==
    [][\A c \in DOMAIN streams :
            streams[c].open /\ ~streams'[c].open
                => streams[c].sid \notin DOMAIN sessions']_vars

-----------------------------------------------------------------------------
\* The POSTs that arrived with a session id the table did not hold and that
\* do not ask for a new session themselves.
UnseenPosts ==
    {r \in DOMAIN posts : /\ posts[r].http = "POST"
                           /\ ~posts[r].known
                           /\ Field(posts[r].msg, "method") # "initialize"}

\* C21: two POSTs that carry the same session id, unseen when each of them
\* arrived, get one Server object between them, and once both have passed
\* connect() that object is the one the session table holds under the id.
C21_OneHandlerPerId ==
    \A r \in UnseenPosts, q \in UnseenPosts :
        posts[r].sid = posts[q].sid
            => /\ posts[r].server = posts[q].server
               /\ posts[r].pc # "connecting" /\ posts[q].pc # "connecting"
                    => sessions[posts[r].sid].mcpServer = posts[r].server

-----------------------------------------------------------------------------
(* Registration and authorization over the edges of their inputs:           *)
(* registrations with and without redirect URIs, authorize requests with    *)
(* and without a usable redirect_uri, a state and a challenge, at several   *)
(* instants.                                                                *)

RegisterInputs ==
    {[client_name |-> "Claude"],
     [client_name |-> "Claude", redirect_uris |-> <<>>],
     [client_name |-> "Claude", redirect_uris |-> <<"https://app.example/callback">>]}

RedirectUriInputs == {"https://claude.ai/api/mcp/auth_callback", "/callback", Undefined}

StateInputs == {Undefined, "", "xyz"}

AuthorizeInputs ==
    {[AuthorizeQuery(c, p[1], p[2]) EXCEPT !.redirect_uri = u, !.state = s] :
        c \in ClientIds, p \in {<<Undefined, Undefined>>, <<"verifier123", "plain">>},
        u \in RedirectUriInputs, s \in StateInputs}

NextInputs ==
    \/ \E body \in RegisterInputs : Register(body)
    \/ \E q \in AuthorizeInputs : Authorize(q)
    \/ Tick

SpecInputs == Init /\ [][NextInputs]_vars

\* The registration just handled named no redirect URI: the field was absent
\* or an empty list.
RegisteredWithoutUris ==
    /\ last'.op = "register"
    /\ "redirect_uris" \in DOMAIN last'.req => last'.req.redirect_uris = <<>>

\* C22: every registration is answered 200, and one that names no redirect
\* URI (field absent or empty list) stores and returns a client whose
\* redirect_uris is the default list.
C22_RegisterDefaults ==
    [][/\ last'.op = "register" => last'.res.status = 200
       /\ RegisteredWithoutUris
            => /\ last'.res.body.redirect_uris = DefaultRedirectUris
               /\ registeredClients'[last'.res.body.client_id].redirect_uris
                    = DefaultRedirectUris]_vars

\* A response that reports a failure
IsFailure(res) == res.status >= 400

\* A failure reported as JSON with a machine-readable `error' field
IsStructuredError(res) == "body" \in DOMAIN res /\ "error" \in DOMAIN res.body

\* C23: whatever authorize, token or the bearer-token check refuses, it
\* refuses with status 400 or 401 and a JSON body that has an `error' field.
C23_StructuredErrors ==
    [][last'.op \in {"authorize", "token", "validate"} /\ IsFailure(last'.res)
            => IsStructuredError(last'.res) /\ last'.res.status \in {400, 401}]_vars

\* C24: no authorize or token request ends in an uncaught exception, which
\* Express would answer with status 500; a registered client's authorize
\* without a usable redirect_uri included.
C24_NothingThrown ==
    [][last'.op \in {"authorize", "token"} => last'.res.status # 500]_vars

-----------------------------------------------------------------------------
(* The order of the checks of a code exchange: exchanges that name the       *)
(* code's client or another one, before and after the code's expiry.         *)

OrderExchangeBodies ==
    {ExchangeBody(c, i, Undefined, "verifier123") : c \in Codes, i \in ClientIds}

NextOrder ==
    \/ \E body \in RegisterBodies : Register(body)
    \/ \E q \in ClockAuthorizeQueries : Authorize(q)
    \/ \E body \in OrderExchangeBodies : Token(body)
    \/ Tick

SpecOrder == Init /\ [][NextOrder]_vars

\* The exchange just handled passed the client check and presented a code
\* of the ledger under a client_id other than the one the code is bound to.
ForeignClientStep ==
    /\ ExchangeStep
    /\ ~ClientAuthFails(last'.req)
    /\ last'.req.code \in DOMAIN authorizationCodes
    /\ authorizationCodes[last'.req.code].client_id # last'.req.client_id

\* C25: the client binding is checked before the expiry: an exchange under
\* another client's id is answered invalid_grant and leaves the code in the
\* ledger, whether or not the code has expired.
C25_ClientBeforeExpiry ==
    [][ForeignClientStep
            => /\ IsTokenError(last'.res, 400, "invalid_grant")
               /\ last'.req.code \in DOMAIN authorizationCodes']_vars

-----------------------------------------------------------------------------
(* C26: PKCE with a method other than S256 *)

\* What the exchange just handled was answered, for a code whose challenge
\* is compared with the verifier as it is: invalid_request without a
\* verifier (none or an empty one), success when the verifier is the stored
\* challenge, and invalid_grant otherwise; a refusal mints nothing.
PlainOutcome(challenge) ==
    IF ~Truthy(last'.req.code_verifier)
    THEN IsTokenError(last'.res, 400, "invalid_request") /\ NothingMinted
    ELSE IF last'.req.code_verifier = challenge
    THEN last'.res.status = 200
    ELSE IsTokenError(last'.res, 400, "invalid_grant") /\ NothingMinted

\* C26: for a code stored with a challenge and method plain, an otherwise
\* valid exchange is answered invalid_request without a code_verifier, and
\* with one it succeeds exactly when the verifier is the stored challenge
\* and is answered invalid_grant otherwise; every stored method other than
\* S256, an absent one included, is treated like plain.
C26_PlainPkce ==
    [][(/\ OtherwiseValidExchangeStep
        /\ authorizationCodes[last'.req.code].code_challenge_method # "S256"
        /\ Truthy(authorizationCodes[last'.req.code].code_challenge))
         => PlainOutcome(authorizationCodes[last'.req.code].code_challenge)]_vars

\* A plain code was exchanged by a request whose verifier is the stored
\* challenge, while the ledger holds a code stored with a challenge and a
\* method that is neither S256 nor plain.
C26_Witness ==
    /\ AfterExchange
    /\ last.res.status = 200
    /\ last.req.code \in DOMAIN issued
    /\ issued[last.req.code].code_challenge_method = "plain"
    /\ last.req.code_verifier = issued[last.req.code].code_challenge
    /\ \E c \in DOMAIN authorizationCodes :
            /\ authorizationCodes[c].code_challenge_method = "S512"
            /\ Truthy(authorizationCodes[c].code_challenge)

-----------------------------------------------------------------------------
(* C27: a code stored without a challenge *)

\* C27: for a code that authorize stored without a challenge (none, or an
\* empty one), an otherwise valid exchange succeeds whatever code_verifier
\* it carries, none included.
C27_PkceOptional ==
    [][(/\ OtherwiseValidExchangeStep
        /\ ~Truthy(authorizationCodes[last'.req.code].code_challenge))
         => last'.res.status = 200 /\ "access_token" \in DOMAIN last'.res.body]_vars

\* A code stored without a challenge was exchanged by a request that
\* carried a verifier, after another such code had been exchanged too.
C27_Witness ==
    /\ AfterExchange
    /\ last.res.status = 200
    /\ last.req.code \in DOMAIN issued
    /\ issued[last.req.code].code_challenge = Undefined
    /\ last.req.code_verifier = "verifier456"
    /\ \E c \in DOMAIN fate \ {last.req.code} :
            /\ fate[c] = "exchanged"
            /\ issued[c].code_challenge = Undefined

-----------------------------------------------------------------------------
(* C28: what a successful authorize leaves behind *)

\* The authorize request just handled was answered with a redirect
AuthorizeSucceeded == last'.op = "authorize" /\ last'.res.status = 302

\* The query parameters of a redirect that carries code c and the state of
\* the request: the state follows the code when the request has one (an
\* empty state parameter counts as none).
RedirectQuery(c, state) ==
    IF state = Undefined \/ state = ""
    THEN <<<<"code", c>>>>
    ELSE <<<<"code", c>>, <<"state", state>>>>

\* C28: a successful authorize adds exactly one code to the ledger and
\* leaves the others as they were; the new code is bound to the request's
\* client_id, redirect_uri, code_challenge and code_challenge_method
\* (undefined when the request has none) and expires 10 minutes after the
\* request; the response redirects to redirect_uri with that code, followed
\* by the state exactly when the request has one.
C28_AuthorizeStores ==
    [][AuthorizeSucceeded
        => \E c \in DOMAIN authorizationCodes' \ DOMAIN authorizationCodes :
            /\ DOMAIN authorizationCodes' = DOMAIN authorizationCodes \cup {c}
            /\ \A d \in DOMAIN authorizationCodes :
                    authorizationCodes'[d] = authorizationCodes[d]
            /\ authorizationCodes'[c].client_id = last'.req.client_id
            /\ authorizationCodes'[c].redirect_uri = last'.req.redirect_uri
            /\ authorizationCodes'[c].code_challenge = last'.req.code_challenge
            /\ authorizationCodes'[c].code_challenge_method
                    = last'.req.code_challenge_method
            /\ authorizationCodes'[c].expires_at = now + 10 * 60 * 1000
            /\ last'.res.location.url = last'.req.redirect_uri
            /\ last'.res.location.query = RedirectQuery(c, last'.req.state)]_vars

\* A second code was stored by a successful authorize without a state and
\* with a challenge, at an instant later than the first code's authorize.
C28_Witness ==
    /\ last.op = "authorize"
    /\ last.res.status = 302
    /\ last.req.state = Undefined
    /\ last.req.code_challenge = "verifier123"
    /\ now > 0
    /\ Cardinality(DOMAIN authorizationCodes) = 2
    /\ \E c \in DOMAIN authorizationCodes : authorizationCodes[c].expires_at = now + CodeTtlMs

-----------------------------------------------------------------------------
(* Every operation next to every store: the OAuth routes with two           *)
(* registrations and a running clock, and POST /mcp.                        *)

MaxRegistrations == 2

FrameAuthorizeQueries == {AuthorizeQuery(ClientIdOf(1), Undefined, Undefined)}

FrameTokenBodies ==
    {ExchangeBody(c, ClientIdOf(1), Undefined, Undefined) : c \in Codes}
    \cup {RefreshBody(r, ClientIdOf(1), Undefined) : r \in RefreshTokenValues}

FrameHeaders == {"Bearer " \o AccessTokenOf(1)}

FrameMessages ==
    { [jsonrpc |-> "2.0", id |-> 4, method |-> "tools/call",
       params |-> [name |-> "get_ticker"]] }

NextFrame ==
    \/ \E body \in RegisterBodies : RegisterUpTo(body, MaxRegistrations)
    \/ \E q \in FrameAuthorizeQueries : Authorize(q)
    \/ \E body \in FrameTokenBodies : Token(body)
    \/ \E h \in FrameHeaders : PostMessage(h)
    \/ Tick
    \/ \E m \in FrameMessages : McpPost(Undefined, m)
    \/ \E rid \in 1..MaxPosts : McpConnected(rid)
    \/ \E rid \in 1..MaxPosts : McpFetched(rid, "result")

SpecFrame == Init /\ [][NextFrame]_vars

-----------------------------------------------------------------------------
(* C29: which store each operation writes *)

\* The step just taken handled the OAuth request named by op.  (A step of
\* POST /mcp leaves `last' as it was and changes `posts'.)
OAuthStep(op) == last'.op = op /\ posts' = posts

\* Map m2 is m1 with exactly n new entries; every entry of m1 is in m2 as it
\* was.
Adds(m1, m2, n) ==
    /\ DOMAIN m1 \subseteq DOMAIN m2
    /\ \A k \in DOMAIN m1 : m2[k] = m1[k]
    /\ Cardinality(DOMAIN m2 \ DOMAIN m1) = n

RegisterFrame ==
    OAuthStep("register")
        => /\ Adds(registeredClients, registeredClients', 1)
           /\ UNCHANGED <<authorizationCodes, accessTokens, refreshTokens, sessions>>

AuthorizeFrame ==
    OAuthStep("authorize")
        => /\ Adds(authorizationCodes, authorizationCodes',
                   IF last'.res.status = 400 THEN 0 ELSE 1)
           /\ UNCHANGED <<registeredClients, accessTokens, refreshTokens, sessions>>

ExchangeFrame ==
    OAuthStep("token") /\ last'.req.grant_type = "authorization_code"
        => /\ UNCHANGED <<registeredClients, sessions>>
           /\ IF last'.res.status = 200
              THEN /\ last'.req.code \in DOMAIN authorizationCodes
                   /\ authorizationCodes' = MapDelete(authorizationCodes, last'.req.code)
                   /\ Adds(accessTokens, accessTokens', 1)
                   /\ Adds(refreshTokens, refreshTokens', 1)
              ELSE /\ UNCHANGED <<accessTokens, refreshTokens>>
                   /\ authorizationCodes'
                        \in {authorizationCodes,
                             MapDelete(authorizationCodes, last'.req.code)}

RefreshFrame ==
    OAuthStep("token") /\ last'.req.grant_type = "refresh_token"
        => /\ UNCHANGED <<registeredClients, authorizationCodes, refreshTokens, sessions>>
           /\ Adds(accessTokens, accessTokens', IF last'.res.status = 200 THEN 1 ELSE 0)

ValidateFrame ==
    OAuthStep("validate")
        => /\ UNCHANGED <<registeredClients, authorizationCodes, refreshTokens, sessions>>
           /\ \/ accessTokens' = accessTokens
              \/ \E a \in DOMAIN accessTokens :
                    /\ last'.req.authorization = "Bearer " \o a
                    /\ now > accessTokens[a].expires_at
                    /\ accessTokens' = MapDelete(accessTokens, a)

McpFrame ==
    posts' # posts
        => UNCHANGED <<registeredClients, authorizationCodes, accessTokens, refreshTokens>>

\* C29: register adds one client and touches no other client and no other
\* store; authorize adds one code (none when it refuses the client) and
\* nothing else; a successful exchange removes the presented code and adds
\* one access token and one refresh token, a refused one at most removes
\* the presented code; a refresh adds one access token (none when refused)
\* and leaves the refresh tokens alone; a validation removes at most the
\* presented access token, and only when it has expired; a step of POST
\* /mcp changes none of the four OAuth stores.
C29_Frame ==
    [][/\ RegisterFrame
       /\ AuthorizeFrame
       /\ ExchangeFrame
       /\ RefreshFrame
       /\ ValidateFrame
       /\ McpFrame]_vars

\* Two clients are registered, a code has been exchanged, the first access
\* token has been removed by a validation after its expiry, a session is in
\* the session table, and the request just handled was a refresh that
\* returned a new access token.
C29_Witness ==
    /\ AfterRefresh
    /\ last.res.status = 200
    /\ Cardinality(DOMAIN registeredClients) = 2
    /\ \E c \in DOMAIN fate : fate[c] = "exchanged"
    /\ AccessTokenOf(1) \notin DOMAIN accessTokens
    /\ DOMAIN sessions # {}
    /\ \E r \in DOMAIN posts : posts[r].pc = "done"

-----------------------------------------------------------------------------
(* C30: how an access token leaves the store *)

\* C30: under every interleaving of exchanges, refreshes and validations, an
\* access token that is removed from the store is removed by a validation
\* that presents that very token after its expires_at; a token that stays
\* keeps its record; and a validation that passes presents a stored token
\* whose expires_at has not passed.
C30_TokenLeaves ==
    [][/\ \A a \in DOMAIN accessTokens :
            IF a \in DOMAIN accessTokens'
            THEN accessTokens'[a] = accessTokens[a]
            ELSE /\ ValidateStep
                 /\ last'.req.authorization = "Bearer " \o a
                 /\ now > accessTokens[a].expires_at
                 /\ DOMAIN accessTokens' = DOMAIN accessTokens \ {a}
       /\ ValidateStep /\ last'.res.status = 200
            => /\ IsBearer(last'.req.authorization)
               /\ BearerToken(last'.req.authorization) \in DOMAIN accessTokens
               /\ now <= accessTokens[BearerToken(last'.req.authorization)].expires_at]_vars

\* An expired access token has just been removed by the validation that
\* presented it, while a token minted later is still stored and unexpired.
C30_Witness ==
    /\ AfterValidate
    /\ IsTokenError(last.res, 401, "expired_token")
    /\ last.req.authorization = "Bearer " \o AccessTokenOf(1)
    /\ AccessTokenOf(1) \notin DOMAIN accessTokens
    /\ AccessTokenOf(2) \in DOMAIN accessTokens
    /\ now <= accessTokens[AccessTokenOf(2)].expires_at

-----------------------------------------------------------------------------
(* C31: the session id of a POST *)

\* The session ids of the requests received so far
UsedSessionIds == {posts[q].sid : q \in DOMAIN posts}

\* The id chosen for the POST that has just arrived as request r: the
\* request's Mcp-Session-Id header when it has one, and otherwise an id that
\* is neither in the session table nor used by an earlier request.
SessionIdChosen(r) ==
    IF Truthy(posts'[r].header)
    THEN posts'[r].sid = posts'[r].header
    ELSE posts'[r].sid \notin DOMAIN sessions \cup UsedSessionIds

\* Once POST r is answered, the session table has an entry under the
\* request's session id and the Mcp-Session-Id header of the response is
\* that id.
SessionIdReturned(r) ==
    posts'[r].pc = "done"
        => /\ posts'[r].sid \in DOMAIN sessions'
           /\ posts'[r].res.session_id = posts'[r].sid

\* C31: a POST on /mcp uses the id of its Mcp-Session-Id header, or a fresh
\* generated id when it has none; when the POST has been dispatched a
\* session is stored under that id and the response header carries it.
C31_SessionIdOfPost ==
    [][\A r \in DOMAIN posts' :
            posts'[r].http = "POST"
                => /\ Arrives(r) => SessionIdChosen(r)
                   /\ SessionIdReturned(r)]_vars

-----------------------------------------------------------------------------
(* C32: when the upstream is called *)

\* Request r has reached the upstream: its handler is suspended on the
\* fetch, or the fetch has settled or been left pending for good.
CalledUpstream(r) == posts[r].pc = "fetching" \/ posts[r].fetched # "none"

\* C32: the upstream is reached only by a request whose message is a
\* tools/call; initialize, tools/list, notifications and every other method
\* never reach it, whether the request found its session or created it.
C32_UpstreamOnlyOnCall ==
    \A r \in DOMAIN posts :
        CalledUpstream(r) => Field(posts[r].msg, "method") = "tools/call"

\* A tools/call has been answered from the upstream, and a tools/list on
\* the same session id has been answered without reaching it.
C32_Witness ==
    \E r \in DOMAIN posts, q \in DOMAIN posts :
        /\ posts[r].fetched = "result" /\ posts[r].pc = "done"
        /\ Field(posts[q].msg, "method") = "tools/list"
        /\ posts[q].sid = posts[r].sid
        /\ posts[q].pc = "done" /\ ~CalledUpstream(q)

-----------------------------------------------------------------------------
(* C33: the frames of a push connection *)

\* The frame announces the URL of follow-up POSTs
IsEndpointFrame(frame) == StartsWith(frame, "endpoint ")

\* C33: on every push connection the first frame written is the endpoint
\* advertisement, so a keep-alive frame is never the first one.
C33_EndpointFirst ==
    \A c \in DOMAIN streams :
        streams[c].events # <<>> => IsEndpointFrame(streams[c].events[1])

-----------------------------------------------------------------------------
(* C34: closing a push connection *)

\* Connection c is closed by the step
Closes(c) == streams[c].open /\ ~streams'[c].open

\* C34: the close of a connection stops that connection's keep-alive timer,
\* so no frame is written to a closed connection, and it leaves every other
\* connection (its timer included) and the session table as they were.
C34_CloseCancelsOwnTimer ==
    [][\A c \in DOMAIN streams :
            /\ ~streams[c].open => streams'[c].events = streams[c].events
            /\ Closes(c)
                => /\ ~streams'[c].keepAlive
                   /\ \A d \in DOMAIN streams \ {c} : streams'[d] = streams[d]
                   /\ sessions' = sessions]_vars

\* One connection was closed before its timer ever fired and has no frame;
\* another one is open, its timer is running and has fired.
C34_Witness ==
    \E c \in DOMAIN streams, d \in DOMAIN streams :
        /\ ~streams[c].open /\ streams[c].events = <<>>
        /\ streams[d].open /\ streams[d].keepAlive
        /\ streams[d].events = <<":keepalive">>

-----------------------------------------------------------------------------
(* The protected endpoints under a running clock: GET /sse and POST         *)
(* /message with tokens that are missing, unknown, valid and expired.       *)

GuardHeaders ==
    {Undefined, "Basic dXNlcjpwdw==",
     "Bearer " \o AccessTokenOf(1), "Bearer " \o AccessTokenOf(2)}

NextGuard ==
    \/ \E body \in RegisterBodies : Register(body)
    \/ Authorize(AuthorizeQuery(ClientIdOf(1), Undefined, Undefined))
    \/ \E c \in Codes : Token(ExchangeBody(c, ClientIdOf(1), Undefined, Undefined))
    \/ \E h \in GuardHeaders : SseOpen(h)
    \/ \E c \in 1..MaxStreams : SseClose(c)
    \/ \E h \in GuardHeaders : PostMessage(h)
    \/ Tick

SpecGuard == Init /\ [][NextGuard]_vars

\* The Authorization header presents an access token that is in the store
\* and has not expired
PresentsValidToken(authorization) ==
    /\ IsBearer(authorization)
    /\ BearerToken(authorization) \in DOMAIN accessTokens
    /\ now <= accessTokens[BearerToken(authorization)].expires_at

\* The step handled a request to a protected endpoint
ProtectedStep == last'.op \in {"sse", "validate"} /\ last' # last

\* C35: a Server object is created and a stream opened only by a GET /sse
\* whose bearer token is stored and unexpired at that moment; a request to
\* /sse or /message whose token is missing, unknown or expired is answered
\* 401, creates no Server object and opens no stream.
C35_HandlerBehindToken ==
    [][/\ servers' # servers \/ DOMAIN streams' # DOMAIN streams
            => last'.op = "sse" /\ PresentsValidToken(last'.req.authorization)
       /\ ProtectedStep /\ ~PresentsValidToken(last'.req.authorization)
            => /\ last'.res.status = 401
               /\ servers' = servers
               /\ streams' = streams
       /\ ProtectedStep /\ PresentsValidToken(last'.req.authorization)
            => last'.res.status = 200]_vars

\* A stream was opened with a token while it was valid, and the GET /sse
\* just handled, made after the token's expiry, was answered 401 and opened
\* nothing.
C35_Witness ==
    /\ last.op = "sse"
    /\ IsTokenError(last.res, 401, "expired_token")
    /\ now > TokenExpiresAt(0)
    /\ Cardinality(DOMAIN streams) = 1
    /\ servers = 1

-----------------------------------------------------------------------------
(* Exchanges that are refused and retried: two requests for a code, with    *)
(* the code's client or another one and with no, the right or a wrong       *)
(* verifier.                                                                *)

RetryBodies ==
    {ExchangeBody(c, i, Undefined, v) : c \in Codes, i \in ClientIds, v \in Verifiers}

NextRetry ==
    \/ \E body \in RegisterBodies : Register(body)
    \/ \E q \in ClockAuthorizeQueries : Authorize(q)
    \/ \E conn \in Conns, body \in RetryBodies :
          body.code \in DOMAIN issued /\ TokenArrive(conn, body)
    \/ \E conn \in Conns : TokenRun(conn)
    \/ Tick

SpecRetry == Init /\ [][NextRetry]_vars

\* The handler of connection x runs in this step, on a code that is in the
\* ledger and has not expired
RunsOnLiveCode(x) ==
    /\ x \in DOMAIN inflight
    /\ x \notin DOMAIN replies
    /\ x \in DOMAIN replies'
    /\ inflight[x].code \in DOMAIN authorizationCodes
    /\ now <= authorizationCodes[inflight[x].code].expires_at

\* The request of connection x names the code's client and carries the
\* verifier of the code's S256 challenge
CorrectParameters(x) ==
    LET body == inflight[x]
        rec == authorizationCodes[body.code]
    IN  /\ body.client_id = rec.client_id
        /\ Sha256Base64Url(body.code_verifier) = rec.code_challenge

\* C36: an exchange of an unexpired code that is refused (wrong client_id,
\* no code_verifier, wrong code_verifier) is answered 400 and leaves the
\* code ledger and both token stores as they were; an exchange of that code
\* with the right client_id and verifier, made before the expiry, succeeds
\* whatever was refused before it.
C36_RejectionKeepsCode ==
    [][\A x \in Conns :
            RunsOnLiveCode(x)
                => IF CorrectParameters(x)
                   THEN replies'[x].res.status = 200
                   ELSE /\ replies'[x].res.status = 400
                        /\ replies'[x].res.body.error \in {"invalid_grant", "invalid_request"}
                        /\ UNCHANGED <<authorizationCodes, accessTokens, refreshTokens>>]_vars

\* One request for a code was refused for its verifier, and the other
\* request for the same code, handled afterwards, received tokens.
C36_Witness ==
    /\ DOMAIN replies = {1, 2}
    /\ inflight[1].code = inflight[2].code
    /\ IsTokenError(replies[1].res, 400, "invalid_grant")
    /\ inflight[1].code_verifier = "verifier456"
    /\ inflight[1].client_id = inflight[2].client_id
    /\ 2 \in replies[1].open
    /\ GotTokens(2)

-----------------------------------------------------------------------------
(* C37: the client of a token *)

\* Every stored access token and refresh token names a registered client
TokensOfRegisteredClients ==
    /\ \A a \in DOMAIN accessTokens :
            accessTokens[a].client_id \in DOMAIN registeredClients
    /\ \A r \in DOMAIN refreshTokens :
            refreshTokens[r].client_id \in DOMAIN registeredClients

\* The tokens returned by the exchange just handled are stored under the
\* client the presented code was issued to
MintedForCodesClient ==
    LET client == issued[last'.req.code].client_id
    IN  /\ accessTokens'[last'.res.body.access_token].client_id = client
        /\ refreshTokens'[last'.res.body.refresh_token].client_id = client

\* C37: in every reachable state each access token and each refresh token of
\* the stores is bound to a client of the registry, and the tokens minted by
\* a code exchange are bound to the client the consumed code was issued to.
C37_TokensBound ==
    /\ []TokensOfRegisteredClients
    /\ [][ExchangeStep /\ last'.res.status = 200 /\ accessTokens' # accessTokens
            => MintedForCodesClient]_vars

\* The stores hold the tokens of an exchange and the token of a refresh
C37_Witness ==
    /\ AfterRefresh
    /\ last.res.status = 200
    /\ Cardinality(DOMAIN accessTokens) >= 2
    /\ DOMAIN refreshTokens # {}
    /\ \E c \in DOMAIN fate : fate[c] = "exchanged"

-----------------------------------------------------------------------------
(* Client authentication of token requests: both grants, with no secret,    *)
(* the registered secret and another one, under registered and unregistered *)
(* client ids, before and after the expiry of the code.                     *)

SecretInputs == {Undefined, SecretOf(1), SecretOf(2)}

SecretTokenBodies ==
    {ExchangeBody(c, i, s, "verifier123") :
        c \in Codes, i \in ClientIds, s \in SecretInputs}
    \cup {RefreshBody(r, i, s) :
            r \in RefreshTokenValues, i \in ClientIds, s \in SecretInputs}

NextSecret ==
    \/ \E body \in RegisterBodies : Register(body)
    \/ \E q \in ClockAuthorizeQueries : Authorize(q)
    \/ \E body \in SecretTokenBodies : Token(body)
    \/ Tick

SpecSecret == Init /\ [][NextSecret]_vars

\* The step handled a token request
TokenStep == last'.op = "token"

\* The token request just handled named a client that is not registered
UnregisteredClient == last'.req.client_id \notin DOMAIN registeredClients

\* The token request just handled presented a client_secret that is not the
\* registered secret of its client_id
WrongSecret ==
    /\ last'.req.client_secret # Undefined
    /\ last'.req.client_id \in DOMAIN registeredClients
    /\ registeredClients[last'.req.client_id].client_secret # last'.req.client_secret

\* The request was refused at the client check: invalid_client, and no store
\* was written.
RefusedAsInvalidClient ==
    /\ IsTokenError(last'.res, 401, "invalid_client")
    /\ UNCHANGED <<registeredClients, authorizationCodes, accessTokens, refreshTokens>>

\* C38: a token request, of either grant, that presents a client_secret
\* and either names an unregistered client or presents another secret than
\* the registered one is answered invalid_client and writes no store: the
\* presented code is neither consumed nor evicted, expired or not.  (The
\* check is made only for a request that presents a secret; one that
\* presents none is never answered invalid_client.)
C38_InvalidClient ==
    [][TokenStep
        => IF Truthy(last'.req.client_secret)
           THEN WrongSecret \/ UnregisteredClient => RefusedAsInvalidClient
           ELSE last'.res.status # 401]_vars

\* An expired code that is still in the ledger was presented with a secret
\* that is not the client's: the request was answered invalid_client and
\* the code is still there.
C38_Witness ==
    /\ AfterExchange
    /\ last.req.client_secret = SecretOf(2)
    /\ last.req.client_id \in DOMAIN registeredClients
    /\ last.req.code \in DOMAIN authorizationCodes
    /\ now > authorizationCodes[last.req.code].expires_at
    /\ IsTokenError(last.res, 401, "invalid_client")
    /\ DOMAIN refreshTokens # {}

-----------------------------------------------------------------------------
(* C39: authorize and the registered redirect URIs *)

\* The redirect URIs stored for client c at registration
RegisteredUris(c) ==
    {registeredClients[c].redirect_uris[i] :
        i \in 1..Len(registeredClients[c].redirect_uris)}

\* The step handled an authorize request of a registered client
RegisteredAuthorizeStep ==
    /\ last'.op = "authorize"
    /\ authorizationCodes' # authorizationCodes \/ last' # last
    /\ last'.req.client_id \in DOMAIN registeredClients

\* C39: for a registered client authorize issues a code bound to the
\* redirect_uri of the request and, when that is an absolute URL, redirects
\* to it, whatever redirect URIs the client registered: the stored list is
\* not consulted.
C39_RedirectUriUnchecked ==
    [][RegisteredAuthorizeStep
        => /\ \E c \in DOMAIN authorizationCodes' \ DOMAIN authorizationCodes :
                authorizationCodes'[c].redirect_uri = last'.req.redirect_uri
           /\ last'.req.redirect_uri
                \in {"https://claude.ai/api/mcp/auth_callback", "https://app.example/callback"}
                => /\ last'.res.status = 302
                   /\ last'.res.location.url = last'.req.redirect_uri]_vars

\* A client registered with one redirect URI was redirected, with a code,
\* to a URI that is not in its list.
C39_Witness ==
    /\ last.op = "authorize"
    /\ last.res.status = 302
    /\ last.req.client_id \in DOMAIN registeredClients
    /\ RegisteredUris(last.req.client_id) = {"https://app.example/callback"}
    /\ last.res.location.url = "https://claude.ai/api/mcp/auth_callback"
    /\ last.res.location.url \notin RegisteredUris(last.req.client_id)
    /\ authorizationCodes # EmptyMap

-----------------------------------------------------------------------------
(* C40: authorize without a redirect *)

\* The step handled an authorize request and answered it without a redirect
AuthorizeWithoutRedirect ==
    /\ last'.op = "authorize"
    /\ last' # last \/ authorizationCodes' # authorizationCodes
    /\ last'.res.status # 302

\* C40: an authorize call that ends without issuing a redirect (unknown
\* client, or a redirect_uri that cannot be turned into a redirect URL)
\* leaves the code ledger unchanged, so that every code of the ledger was
\* delivered in a redirect.
C40_NoRedirectNoCode ==
    [][AuthorizeWithoutRedirect
        => authorizationCodes' = authorizationCodes]_vars

====
